---- MODULE Spec2Model ----
(***************************************************************************)
(* Per-user container orchestration core of docker-container-app:          *)
(*   - ContainerManager (frontend/src/lib/container-manager.ts): the       *)
(*     persisted container records, their start/stop/delete handlers, the  *)
(*     port scan and the audit log;                                        *)
(*   - ContainerPool (frontend/src/lib/container-pool.ts);                 *)
(*   - CircuitBreaker (circuit-breaker.ts).                                *)
(* Every handler is an async function: the code between two awaits runs    *)
(* atomically (one JavaScript task), and any other handler may run between *)
(* them.  Each action below is one such segment: the awaited call's effect *)
(* on the store or the runtime followed by the handler's code up to the    *)
(* next await.  A store (prisma) call or a runtime (dockerode) call can     *)
(* fail at any time; its outcome is drawn with \E ok \in BOOLEAN.          *)
(***************************************************************************)
EXTENDS Integers, Sequences, FiniteSets, TLC

(* ------------------------------ bounds -------------------------------- *)
\* concurrent handler invocations of the manager
MaxTasks == 2
\* container records the store ever creates (cuid ids are never reused)
MaxContainers == 2
\* runtime containers the runtime ever creates (docker ids are never reused)
MaxHandles == 2
\* width of the port range scanned from PortBase (the code scans 1000 ports)
MaxPorts == 2

\* concurrent callers of the pool
MaxPoolTasks == 2
\* pooled containers the pool ever creates (their ids are never reused): one more
\* than the per-image cap; and as many as the cap, for the specifications that
\* do not look at the cap
MaxEntries == 3
MaxCreated == 2
\* arrays the pool ever allocates for images without a bucket
MaxArrays == 2
\* width of the port range the pool scans from PoolPortBase (the code scans 1000)
MaxPoolPorts == 3
\* config.maxContainersPerImage (3 by default) and config.poolSize (5 by default)
MaxContainersPerImage == 2
PoolSize == 2
\* execute calls in flight at once on one breaker
MaxInflight == 2
\* samples a breaker's requestHistory holds, recorded or awaited: when the calls
\* come one after the other, when they overlap, when the pool makes them, when it
\* makes them while its timer keeps firing, and when they overlap one sweep of
\* the timer
MaxCalls == 8
MaxRaceCalls == 7
MaxPoolCalls == 4
MaxEvictCalls == 1
MaxSweepCalls == 2
\* the clock: Date.now() runs from 1 to MaxTime
MaxTime == 4
\* the idle timeouts a sweep is called with, 1..MaxIdle clock ticks
MaxIdle == 2
\* config.maxIdleTime of the pool, in clock ticks
MaxIdleTime == 1
\* options.recoveryTimeout and options.monitoringPeriod, in clock ticks
RecoveryTimeout == 1
MonitoringPeriod == 2

(* --------------------------- program constants ------------------------ *)
\* first port of the scan, container-manager.ts:699
PortBase == 8000
\* a null column (port Int?, dockerId String?) or an unset local
Null == -1

\* first port of the pool's scan, container-pool.ts:413
PoolPortBase == 9000
\* options.minimumRequestThreshold and options.expectedFailureRate (0.5, as the
\* ratio RateNum / RateDen) of the breaker under test
MinimumRequestThreshold == 5
\* options.failureThreshold of the breaker under test (no method reads it)
FailureThreshold == 3
RateNum == 1
RateDen == 2

Users == {"u1", "u2"}
\* container names: the one getUserContainer looks up, and another
Names == {"default", "development"}
Admins == {"admin"}
\* the reason an admin gives for a force-cleanup or a delete
Reasons == {"policy"}
\* ContainerStatus
Statuses == {"STOPPED", "STARTING", "RUNNING", "STOPPING", "ERROR", "TERMINATED"}

Tasks == 1..MaxTasks
Ids == 1..MaxContainers
Handles == 1..MaxHandles
Ports == PortBase..(PortBase + MaxPorts - 1)

PoolTasks == 1..MaxPoolTasks
EntryIds == 1..MaxEntries
ArrayRefs == 1..MaxArrays
PoolPorts == PoolPortBase..(PoolPortBase + MaxPoolPorts - 1)
DefaultImage == "node:18-alpine"
\* config.preWarmImages; every other image has no bucket at construction
PreWarmImages == <<"node:18-alpine">>
Images == {"node:18-alpine", "custom"}
\* the order of pool.entries(): the pre-warm images, set by the constructor, come
\* before every image set later
ImageOrder == <<"node:18-alpine", "custom">>
Calls == 1..MaxInflight

VARIABLES
  containers,   \* store: id -> Container row, NoRecord where there is none
  nextId,       \* store: the next fresh Container id
  auditLog,     \* store: the AuditLog rows
  auditing,     \* whether the specification keeps the AuditLog rows (see LogAuditAction)
  docker,       \* runtime: handle -> the container's state and published host port
  nextHandle,   \* runtime: the next fresh container id
  tasks         \* the handler invocations in flight, with their locals

mgrVars == <<containers, nextId, auditLog, auditing, docker, nextHandle, tasks>>

VARIABLES
  pool,         \* ContainerPool.pool: image -> the array held for it, NoArray where none
  arrays,       \* the PooledContainer[] arrays: the ids of their entries, in order
  nextArray,    \* the next fresh array
  entry,        \* the PooledContainer objects: id -> fields, NoEntry before creation
  nextEntry,    \* the next fresh pooled container id
  poolDocker,   \* runtime: pooled container id -> state and published host port
  prewarm,      \* the preWarmContainers invocation started by the constructor
  poolTasks,    \* the pool's method invocations in flight, with their locals
  handed,       \* history: id -> hand-outs by getContainer since the last returnContainer(id)
  resetFailed,  \* history: the ids whose in-container reset has failed
  cleanupInterval  \* ContainerPool.cleanupInterval: whether the eviction timer is armed

poolVars == <<pool, arrays, nextArray, entry, nextEntry, poolDocker, prewarm, poolTasks,
              handed, resetFailed, cleanupInterval>>

VARIABLES
  state,            \* CircuitBreaker.state
  failureCount,     \* CircuitBreaker.failureCount
  successCount,     \* CircuitBreaker.successCount
  lastFailureTime,  \* CircuitBreaker.lastFailureTime (0: none)
  nextAttemptTime,  \* CircuitBreaker.nextAttemptTime
  requestHistory,   \* CircuitBreaker.requestHistory: <<[timestamp, success]>>
  calls,            \* the execute invocations in flight
  now               \* Date.now()

cbVars == <<state, failureCount, successCount, lastFailureTime, nextAttemptTime, requestHistory>>

\* what the manager's handlers never touch, the pool's methods never touch, and
\* the breaker's methods never touch
notMgr == <<poolVars, cbVars, calls, now>>
notPool == <<mgrVars, calls, now>>
notBreaker == <<mgrVars, poolVars>>

\* a runtime container: "none" (never created, or removed), "exited" (created or
\* stopped, not running) or "running"; port is the host port it publishes
NoContainer == [state |-> "none", port |-> Null]

NoRecord == [userId |-> "", name |-> "", status |-> "NONE", port |-> Null, dockerId |-> Null,
             lastActivity |-> Null]

Exists(id) == containers[id] # NoRecord

\* A handler invocation and its locals.  container holds the fields of the record
\* read by findUnique that the handler reads later (userId, dockerId) and, for
\* startContainer, the status the call found the record in.  A local that is not
\* read again is reset to its initial value.
\* For the batch operations: cutoff and where are the query's arguments, batch is
\* the array findMany returned (id and userId of each row), k the position of the
\* loop, cleaned and errors what the loop has counted and reported (errors holds
\* the ids whose failure was reported, Null for a failure of the batch itself).
\* For the reads: found is the record returned (Null: null), rows the list.
\* starts counts the dockerContainer.start() calls a startContainer call has
\* issued.  dockerError is what startContainer's inner catch has caught, until
\* its ERROR update: "No available ports" or "other" (any other error).
Idle == [op |-> "none", pc |-> "idle", id |-> Null, userId |-> "", name |-> "",
         container |-> [userId |-> "", dockerId |-> Null, status |-> ""], port |-> Null,
         dockerContainer |-> Null, caller |-> "none", admin |-> "", reason |-> "",
         cutoff |-> Null, where |-> [userId |-> "", status |-> {}], batch |-> <<>>, k |-> 0,
         cleaned |-> 0, errors |-> {}, found |-> Null, rows |-> {}, starts |-> 0,
         dockerError |-> "", result |-> "none"]

Snapshot(rec) == [userId |-> rec.userId, dockerId |-> rec.dockerId, status |-> ""]

\* the row container.create inserts: status STOPPED; port, dockerId and
\* lastActivity unset
NewRecord(userId, name) ==
  [userId |-> userId, name |-> name, status |-> "STOPPED", port |-> Null, dockerId |-> Null,
   lastActivity |-> Null]

\* the manager after construction, over an empty store
InitEmpty ==
  /\ containers = [i \in Ids |-> NoRecord]
  /\ nextId = 1
  /\ auditLog = {}
  /\ docker = [h \in Handles |-> NoContainer]
  /\ nextHandle = 1
  /\ tasks = [t \in Tasks |-> Idle]

\* the store once one user has created their container and nothing else has
\* happened
InitOne ==
  /\ containers = [i \in Ids |-> IF i = 1 THEN NewRecord("u1", "default") ELSE NoRecord]
  /\ nextId = 2
  /\ auditLog = {}
  /\ docker = [h \in Handles |-> NoContainer]
  /\ nextHandle = 1
  /\ tasks = [t \in Tasks |-> Idle]

\* the store once MaxContainers users have each created their container and
\* nothing else has happened (the state createContainer leaves, see CreateInsert)
InitCreated ==
  /\ \E f \in [Ids -> Users] :
       /\ \A i, j \in Ids : i # j => f[i] # f[j]
       /\ \A i, j \in Ids : i < j => f[i] = "u1"
       /\ containers = [i \in Ids |-> NewRecord(f[i], "default")]
  /\ nextId = MaxContainers + 1
  /\ auditLog = {}
  /\ docker = [h \in Handles |-> NoContainer]
  /\ nextHandle = 1
  /\ tasks = [t \in Tasks |-> Idle]

(* ----------------------------- the store ------------------------------ *)
\* @@unique([userId, name]) of model Container
UniqueUserIdName(userId, name) ==
  \A i \in Ids : Exists(i) => ~(containers[i].userId = userId /\ containers[i].name = name)

\* dockerId String? @unique of model Container
UniqueDockerId(id, h) ==
  \A i \in Ids : (i # id /\ Exists(i)) => containers[i].dockerId # h

\* an AuditLog row; details is the admin's reason when the text carries it, ""
\* when it does not
AuditRow(action, containerId, userId, adminUserId, details) ==
  [action |-> action, containerId |-> containerId, userId |-> userId, adminUserId |-> adminUserId,
   details |-> details]

\* logAuditAction: auditLog.create; a failure is logged and swallowed.  The row
\* references Container(containerId) and User(userId): the insert fails when
\* either does not exist.  No handler reads the AuditLog rows to decide anything,
\* so the specifications that explore the interleavings of start and stop do not
\* keep them (auditing = FALSE).
LogAuditAction(action, containerId, userId, adminUserId, details, ok) ==
  IF auditing /\ ok /\ containerId \in Ids /\ Exists(containerId) /\ userId \in Users
  THEN auditLog' = auditLog \cup {AuditRow(action, containerId, userId, adminUserId, details)}
  ELSE auditLog' = auditLog

(* ---------------------------- the runtime ----------------------------- *)
\* what the runtime accepts; every runtime call can also fail for other reasons.
\* start: the container exists, is not running (304 otherwise), and its host
\* port is not published by a running container
DockerStartOk(h) ==
  /\ docker[h].state = "exited"
  /\ \A g \in Handles : (g # h /\ docker[g].state = "running") => docker[g].port # docker[h].port

\* stop: the container is running (304 otherwise)
DockerStopOk(h) == docker[h].state = "running"

\* remove (without force): the container exists and is not running
DockerRemoveOk(h) == docker[h].state = "exited"

\* inspect: the container exists
DockerInspectOk(h) == docker[h].state # "none"

(* ------------------------- task bookkeeping --------------------------- *)
SetTask(t, rec) == tasks' = [tasks EXCEPT ![t] = rec]

Goto(t, pc) == SetTask(t, [tasks[t] EXCEPT !.pc = pc])

\* the handler returns or throws to its caller
Finish(t, result) ==
  SetTask(t, [Idle EXCEPT !.op = tasks[t].op, !.id = tasks[t].id, !.pc = "done",
                          !.starts = tasks[t].starts, !.result = result])

\* the caller takes the result; the invocation is over
Return(t) ==
  /\ tasks[t].pc = "done"
  /\ SetTask(t, Idle)
  /\ UNCHANGED <<containers, nextId, auditLog, auditing, docker, nextHandle, notMgr>>

\* a new invocation takes the first free slot (the slots are interchangeable)
Free(t) == \A u \in Tasks : u < t => tasks[u].pc # "idle"

(* ------------------------- createContainer ---------------------------- *)
CallCreate(t, userId, name) ==
  /\ tasks[t].pc = "idle"
  /\ nextId <= MaxContainers
  /\ SetTask(t, [Idle EXCEPT !.op = "create", !.pc = "create_find", !.userId = userId, !.name = name])
  /\ UNCHANGED <<containers, nextId, auditLog, auditing, docker, nextHandle, notMgr>>

\* (mutant of CreateFindOutcome) a createContainer that does not look for an
\* existing record
CreateFindOutcome_NoCheck(ok, userId, name) ==
  IF ~ok THEN "threw" ELSE "create_insert"

\* findUnique({userId_name}) and the test on existing: a store failure ends in
\* the catch's 'Failed to create container' ("threw"), an existing record in the
\* rethrown 'Container with this name already exists' ("duplicate"); otherwise
\* the call goes on to the insert
CreateFindOutcome(ok, userId, name) ==
  IF ~ok THEN "threw"
  ELSE IF ~UniqueUserIdName(userId, name) THEN "duplicate"
  ELSE "create_insert"

CreateFind(t) ==
  /\ tasks[t].pc = "create_find"
  /\ \E ok \in BOOLEAN :
       LET outcome == CreateFindOutcome(ok, tasks[t].userId, tasks[t].name)
       IN  IF outcome = "create_insert"
           THEN Goto(t, "create_insert")
           ELSE SetTask(t, [Idle EXCEPT !.op = "create", !.pc = "done", !.userId = tasks[t].userId,
                                        !.name = tasks[t].name, !.result = outcome])
  /\ UNCHANGED <<containers, nextId, auditLog, auditing, docker, nextHandle, notMgr>>

\* (mutant of StoreCreateOk) a store without the unique index on (userId, name)
StoreCreateOk_NoUniqueIndex(userId, name) ==
  nextId <= MaxContainers

\* prisma.container.create: the store enforces @@unique([userId, name]); a
\* rejected insert ends in the catch's 'Failed to create container'
StoreCreateOk(userId, name) ==
  /\ nextId <= MaxContainers
  /\ UniqueUserIdName(userId, name)

CreateInsert(t) ==
  /\ tasks[t].pc = "create_insert"
  /\ \E ok \in BOOLEAN :
       IF ok /\ StoreCreateOk(tasks[t].userId, tasks[t].name)
       THEN /\ containers' = [containers EXCEPT ![nextId] = NewRecord(tasks[t].userId, tasks[t].name)]
            /\ nextId' = nextId + 1
            /\ SetTask(t, [tasks[t] EXCEPT !.pc = "create_audit", !.id = nextId, !.name = ""])
       ELSE /\ SetTask(t, [Idle EXCEPT !.op = "create", !.pc = "done", !.userId = tasks[t].userId,
                                        !.name = tasks[t].name, !.result = "threw"])
            /\ UNCHANGED <<containers, nextId>>
  /\ UNCHANGED <<auditLog, auditing, docker, nextHandle, notMgr>>

CreateAudit(t) ==
  /\ tasks[t].pc = "create_audit"
  /\ \E ok \in BOOLEAN : LogAuditAction("CREATE", tasks[t].id, tasks[t].userId, "", "", ok)
  /\ Finish(t, "returned")
  /\ UNCHANGED <<containers, nextId, auditing, docker, nextHandle, notMgr>>

(* -------------------------- startContainer ---------------------------- *)
CallStart(t, id) ==
  /\ tasks[t].pc = "idle"
  /\ SetTask(t, [Idle EXCEPT !.op = "start", !.pc = "start_find", !.id = id])
  /\ UNCHANGED <<containers, nextId, auditLog, auditing, docker, nextHandle, notMgr>>

\* findUnique({id}); no record or a store failure throws to the outer catch
StartFind(t) ==
  /\ tasks[t].pc = "start_find"
  /\ \E ok \in BOOLEAN :
       IF ok /\ Exists(tasks[t].id)
       THEN SetTask(t, [tasks[t] EXCEPT !.pc = "start_mark",
                          !.container = [Snapshot(containers[tasks[t].id]) EXCEPT
                                           !.status = containers[tasks[t].id].status]])
       ELSE Finish(t, "threw")
  /\ UNCHANGED <<containers, nextId, auditLog, auditing, docker, nextHandle, notMgr>>

\* update({status: 'STARTING'}), outside the inner try
StartMark(t) ==
  /\ tasks[t].pc = "start_mark"
  /\ \E ok \in BOOLEAN :
       IF ok /\ Exists(tasks[t].id)
       THEN /\ containers' = [containers EXCEPT ![tasks[t].id].status = "STARTING",
                                             ![tasks[t].id].lastActivity = now]
            /\ Goto(t, "start_port")
       ELSE /\ Finish(t, "threw")
            /\ UNCHANGED containers
  /\ UNCHANGED <<nextId, auditLog, auditing, docker, nextHandle, notMgr>>

\* a throw inside the inner try: control passes to catch (dockerError)
Fail(t) ==
  SetTask(t, [tasks[t] EXCEPT !.port = Null, !.dockerContainer = Null,
                              !.container.dockerId = Null, !.dockerError = "other",
                              !.pc = "start_err"])

\* the ports of the records whose port is not null
UsedPorts == {containers[i].port : i \in {j \in Ids : Exists(j) /\ containers[j].port # Null}}

\* the loop of getAvailablePort from port on: the first port not in
\* usedPortNumbers, Null when the loop runs off the end of the range
RECURSIVE ScanPorts(_, _)
ScanPorts(port, used) ==
  IF port >= PortBase + MaxPorts THEN Null
  ELSE IF port \notin used THEN port
  ELSE ScanPorts(port + 1, used)

\* (mutant of AvailablePort) a scan that starts one port above the base
AvailablePort_SkipsBase(used) == ScanPorts(PortBase + 1, used)

\* getAvailablePort: the first port from PortBase not in usedPortNumbers, Null when
\* the scan finds none ('No available ports')
AvailablePort(used) == ScanPorts(PortBase, used)

\* getAvailablePort, then the branch on container.dockerId (the record as read
\* by StartFind)
StartPort(t) ==
  /\ tasks[t].pc = "start_port"
  /\ \E ok \in BOOLEAN :
       IF ok /\ AvailablePort(UsedPorts) # Null
       THEN SetTask(t, [tasks[t] EXCEPT
                          !.port = AvailablePort(UsedPorts),
                          !.pc = IF tasks[t].container.dockerId # Null
                                 THEN "start_inspect" ELSE "start_create"])
       ELSE SetTask(t, [tasks[t] EXCEPT
                          !.port = Null, !.dockerContainer = Null, !.container.dockerId = Null,
                          !.dockerError = IF ok THEN "No available ports" ELSE "other",
                          !.pc = "start_err"])
  /\ UNCHANGED <<containers, nextId, auditLog, auditing, docker, nextHandle, notMgr>>

\* docker.getContainer(dockerId).inspect(); on failure a new container is created
StartInspect(t) ==
  /\ tasks[t].pc = "start_inspect"
  /\ \E ok \in BOOLEAN :
       IF ok /\ DockerInspectOk(tasks[t].container.dockerId)
       THEN SetTask(t, [tasks[t] EXCEPT !.dockerContainer = tasks[t].container.dockerId,
                                        !.container.dockerId = Null, !.pc = "start_run"])
       ELSE SetTask(t, [tasks[t] EXCEPT !.container.dockerId = Null, !.pc = "start_create"])
  /\ UNCHANGED <<containers, nextId, auditLog, auditing, docker, nextHandle, notMgr>>

\* createDockerContainer: docker.createContainer with PortBindings
\* '3000/tcp' -> HostPort port
StartCreate(t) ==
  /\ tasks[t].pc = "start_create"
  /\ \E ok \in BOOLEAN :
       IF ok /\ nextHandle <= MaxHandles
       THEN /\ docker' = [docker EXCEPT ![nextHandle] = [state |-> "exited", port |-> tasks[t].port]]
            /\ nextHandle' = nextHandle + 1
            /\ SetTask(t, [tasks[t] EXCEPT !.dockerContainer = nextHandle, !.pc = "start_run"])
       ELSE /\ Fail(t)
            /\ UNCHANGED <<docker, nextHandle>>
  /\ UNCHANGED <<containers, nextId, auditLog, auditing, notMgr>>

\* dockerContainer.start()
StartRun(t) ==
  /\ tasks[t].pc = "start_run"
  /\ \E ok \in BOOLEAN :
       IF ok /\ DockerStartOk(tasks[t].dockerContainer)
       THEN /\ docker' = [docker EXCEPT ![tasks[t].dockerContainer].state = "running"]
            /\ SetTask(t, [tasks[t] EXCEPT !.starts = @ + 1, !.pc = "start_persist"])
       ELSE /\ SetTask(t, [tasks[t] EXCEPT !.starts = @ + 1, !.port = Null, !.dockerContainer = Null,
                                           !.container.dockerId = Null, !.dockerError = "other",
                                           !.pc = "start_err"])
            /\ UNCHANGED docker
  /\ UNCHANGED <<containers, nextId, auditLog, auditing, nextHandle, notMgr>>

\* update({status: 'RUNNING', dockerId, port}), still inside the inner try
StartPersist(t) ==
  /\ tasks[t].pc = "start_persist"
  /\ \E ok \in BOOLEAN :
       IF ok /\ Exists(tasks[t].id) /\ UniqueDockerId(tasks[t].id, tasks[t].dockerContainer)
       THEN /\ containers' = [containers EXCEPT ![tasks[t].id] =
                                [@ EXCEPT !.status = "RUNNING",
                                          !.dockerId = tasks[t].dockerContainer,
                                          !.port = tasks[t].port,
                                          !.lastActivity = now]]
            /\ SetTask(t, [tasks[t] EXCEPT !.port = Null, !.dockerContainer = Null, !.pc = "start_audit"])
       ELSE /\ Fail(t)
            /\ UNCHANGED containers
  /\ UNCHANGED <<nextId, auditLog, auditing, docker, nextHandle, notMgr>>

StartAudit(t) ==
  /\ tasks[t].pc = "start_audit"
  /\ \E ok \in BOOLEAN :
       LogAuditAction("START", tasks[t].id, tasks[t].container.userId, "", "", ok)
  /\ Finish(t, "returned")
  /\ UNCHANGED <<containers, nextId, auditing, docker, nextHandle, notMgr>>

\* catch (dockerError): update({status: 'ERROR'}); port and dockerId are not
\* written.  If this update throws, the outer catch rethrows at once.
StartErr(t) ==
  /\ tasks[t].pc = "start_err"
  /\ \E ok \in BOOLEAN :
       IF ok /\ Exists(tasks[t].id)
       THEN /\ containers' = [containers EXCEPT ![tasks[t].id].status = "ERROR",
                                             ![tasks[t].id].lastActivity = now]
            /\ SetTask(t, [tasks[t] EXCEPT !.dockerError = "", !.pc = "start_err_audit"])
       ELSE /\ Finish(t, "threw")
            /\ UNCHANGED containers
  /\ UNCHANGED <<nextId, auditLog, auditing, docker, nextHandle, notMgr>>

\* (mutant of StartErrAudit) a catch that logs the failure and returns
StartErrAudit_Returns(t) ==
  /\ tasks[t].pc = "start_err_audit"
  /\ \E ok \in BOOLEAN :
       LogAuditAction("ERROR", tasks[t].id, tasks[t].container.userId, "", "", ok)
  /\ Finish(t, "returned")
  /\ UNCHANGED <<containers, nextId, auditing, docker, nextHandle, notMgr>>

\* logAuditAction('ERROR', ...), then throw dockerError (rethrown by the outer
\* catch as 'Failed to start container')
StartErrAudit(t) ==
  /\ tasks[t].pc = "start_err_audit"
  /\ \E ok \in BOOLEAN :
       LogAuditAction("ERROR", tasks[t].id, tasks[t].container.userId, "", "", ok)
  /\ Finish(t, "threw")
  /\ UNCHANGED <<containers, nextId, auditing, docker, nextHandle, notMgr>>

(* --------------------------- stopContainer ---------------------------- *)
CallStop(t, id) ==
  /\ tasks[t].pc = "idle"
  /\ SetTask(t, [Idle EXCEPT !.op = "stop", !.pc = "stop_find", !.id = id])
  /\ UNCHANGED <<containers, nextId, auditLog, auditing, docker, nextHandle, notMgr>>

\* stopContainer returns or throws: to the handler's caller, or into
\* deleteContainer when that is what called it
FinishStop(t, result) ==
  IF tasks[t].caller = "delete"
  THEN SetTask(t, [tasks[t] EXCEPT !.caller = "none", !.container.dockerId = Null,
                     !.pc = IF result = "returned" THEN "delete_remove" ELSE "delete_err_audit"])
  ELSE IF tasks[t].caller = "batch"
  THEN SetTask(t, [tasks[t] EXCEPT
                     !.container = Idle.container,
                     !.errors = IF result = "returned" THEN @ ELSE @ \cup {tasks[t].id},
                     !.pc = IF result = "returned" THEN "batch_audit" ELSE "batch_err_audit"])
  ELSE Finish(t, result)

StopFind(t) ==
  /\ tasks[t].pc = "stop_find"
  /\ \E ok \in BOOLEAN :
       IF ok /\ Exists(tasks[t].id)
       THEN SetTask(t, [tasks[t] EXCEPT !.pc = "stop_mark", !.container = Snapshot(containers[tasks[t].id])])
       ELSE FinishStop(t, "threw")
  /\ UNCHANGED <<containers, nextId, auditLog, auditing, docker, nextHandle, notMgr>>

\* update({status: 'STOPPING'}), then the branch on container.dockerId (the
\* record as read by StopFind)
StopMark(t) ==
  /\ tasks[t].pc = "stop_mark"
  /\ \E ok \in BOOLEAN :
       IF ok /\ Exists(tasks[t].id)
       THEN /\ containers' = [containers EXCEPT ![tasks[t].id].status = "STOPPING",
                                             ![tasks[t].id].lastActivity = now]
            /\ Goto(t, IF tasks[t].container.dockerId # Null THEN "stop_docker_stop" ELSE "stop_persist")
       ELSE /\ FinishStop(t, "threw")
            /\ UNCHANGED containers
  /\ UNCHANGED <<nextId, auditLog, auditing, docker, nextHandle, notMgr>>

\* dockerContainer.stop()
StopDockerStop(t) ==
  /\ tasks[t].pc = "stop_docker_stop"
  /\ \E ok \in BOOLEAN :
       IF ok /\ DockerStopOk(tasks[t].container.dockerId)
       THEN /\ docker' = [docker EXCEPT ![tasks[t].container.dockerId].state = "exited"]
            /\ Goto(t, "stop_docker_remove")
       ELSE /\ SetTask(t, [tasks[t] EXCEPT !.container.dockerId = Null, !.pc = "stop_persist_err"])
            /\ UNCHANGED docker
  /\ UNCHANGED <<containers, nextId, auditLog, auditing, nextHandle, notMgr>>

\* dockerContainer.remove()
StopDockerRemove(t) ==
  /\ tasks[t].pc = "stop_docker_remove"
  /\ \E ok \in BOOLEAN :
       IF ok /\ DockerRemoveOk(tasks[t].container.dockerId)
       THEN /\ docker' = [docker EXCEPT ![tasks[t].container.dockerId] = NoContainer]
            /\ SetTask(t, [tasks[t] EXCEPT !.container.dockerId = Null, !.pc = "stop_persist"])
       ELSE /\ SetTask(t, [tasks[t] EXCEPT !.container.dockerId = Null, !.pc = "stop_persist_err"])
            /\ UNCHANGED docker
  /\ UNCHANGED <<containers, nextId, auditLog, auditing, nextHandle, notMgr>>

\* (mutant of Stopped) an update that clears the runtime id and the port and
\* leaves the status as it finds it
Stopped_KeepsStatus(rec) ==
  [rec EXCEPT !.dockerId = Null, !.port = Null, !.lastActivity = now]

\* the data both STOPPED updates write
Stopped(rec) ==
  [rec EXCEPT !.status = "STOPPED", !.dockerId = Null, !.port = Null, !.lastActivity = now]

\* update({status: 'STOPPED', dockerId: null, port: null}) inside the inner try
StopPersist(t) ==
  /\ tasks[t].pc = "stop_persist"
  /\ \E ok \in BOOLEAN :
       IF ok /\ Exists(tasks[t].id)
       THEN /\ containers' = [containers EXCEPT ![tasks[t].id] = Stopped(@)]
            /\ Goto(t, "stop_audit")
       ELSE /\ Goto(t, "stop_persist_err")
            /\ UNCHANGED containers
  /\ UNCHANGED <<nextId, auditLog, auditing, docker, nextHandle, notMgr>>

StopAudit(t) ==
  /\ tasks[t].pc = "stop_audit"
  /\ \E ok \in BOOLEAN :
       LogAuditAction("STOP", tasks[t].id, tasks[t].container.userId, "", "", ok)
  /\ FinishStop(t, "returned")
  /\ UNCHANGED <<containers, nextId, auditing, docker, nextHandle, notMgr>>

\* catch (dockerError): the same STOPPED update; if it throws, the outer catch
\* rethrows
StopPersistErr(t) ==
  /\ tasks[t].pc = "stop_persist_err"
  /\ \E ok \in BOOLEAN :
       IF ok /\ Exists(tasks[t].id)
       THEN /\ containers' = [containers EXCEPT ![tasks[t].id] = Stopped(@)]
            /\ Goto(t, "stop_err_audit")
       ELSE /\ FinishStop(t, "threw")
            /\ UNCHANGED containers
  /\ UNCHANGED <<nextId, auditLog, auditing, docker, nextHandle, notMgr>>

StopErrAudit(t) ==
  /\ tasks[t].pc = "stop_err_audit"
  /\ \E ok \in BOOLEAN :
       LogAuditAction("ERROR", tasks[t].id, tasks[t].container.userId, "", "", ok)
  /\ FinishStop(t, "returned")
  /\ UNCHANGED <<containers, nextId, auditing, docker, nextHandle, notMgr>>

(* -------------------------- deleteContainer --------------------------- *)
CallDelete(t, id, adminUserId, reason) ==
  /\ tasks[t].pc = "idle"
  /\ SetTask(t, [Idle EXCEPT !.op = "delete", !.pc = "delete_find", !.id = id,
                             !.admin = adminUserId, !.reason = reason])
  /\ UNCHANGED <<containers, nextId, auditLog, auditing, docker, nextHandle, notMgr>>

\* findUnique({id}); a RUNNING record is stopped first (stopContainer reads the
\* record again)
DeleteFind(t) ==
  /\ tasks[t].pc = "delete_find"
  /\ \E ok \in BOOLEAN :
       IF ok /\ Exists(tasks[t].id)
       THEN IF containers[tasks[t].id].status = "RUNNING"
            THEN SetTask(t, [tasks[t] EXCEPT !.container = Snapshot(containers[tasks[t].id]),
                                             !.caller = "delete", !.pc = "stop_find"])
            ELSE SetTask(t, [tasks[t] EXCEPT !.container.userId = containers[tasks[t].id].userId,
                                             !.pc = "delete_remove"])
       ELSE Goto(t, "delete_err_audit")
  /\ UNCHANGED <<containers, nextId, auditLog, auditing, docker, nextHandle, notMgr>>

\* prisma.container.delete; the AuditLog rows of the record go with it
\* (container relation, onDelete: Cascade)
DeleteRemove(t) ==
  /\ tasks[t].pc = "delete_remove"
  /\ \E ok \in BOOLEAN :
       IF ok /\ Exists(tasks[t].id)
       THEN /\ containers' = [containers EXCEPT ![tasks[t].id] = NoRecord]
            /\ auditLog' = {a \in auditLog : a.containerId # tasks[t].id}
            /\ Goto(t, "delete_audit")
       ELSE /\ Goto(t, "delete_err_audit")
            /\ UNCHANGED <<containers, auditLog>>
  /\ UNCHANGED <<nextId, auditing, docker, nextHandle, notMgr>>

DeleteAudit(t) ==
  /\ tasks[t].pc = "delete_audit"
  /\ \E ok \in BOOLEAN :
       LogAuditAction("DELETE", tasks[t].id, tasks[t].container.userId, tasks[t].admin,
                      tasks[t].reason, ok)
  /\ Finish(t, "returned")
  /\ UNCHANGED <<containers, nextId, auditing, docker, nextHandle, notMgr>>

\* catch: logAuditAction('ERROR', containerId, '', errorMsg, adminUserId), rethrow
DeleteErrAudit(t) ==
  /\ tasks[t].pc = "delete_err_audit"
  /\ \E ok \in BOOLEAN :
       LogAuditAction("ERROR", tasks[t].id, "", tasks[t].admin, "", ok)
  /\ Finish(t, "threw")
  /\ UNCHANGED <<containers, nextId, auditing, docker, nextHandle, notMgr>>

(* ----------- cleanupIdleContainers, forceCleanupContainers ------------ *)
\* the orders in which findMany (no orderBy) can return the rows of S
Orders(S) == {q \in [1..Cardinality(S) -> S] : \A i, j \in 1..Cardinality(S) : i # j => q[i] # q[j]}

\* the array findMany returns for the rows S in order q
Rows(q) == [j \in 1..Len(q) |-> [id |-> q[j], userId |-> containers[q[j]].userId]]

\* (mutant of IdleContainers) a query that does not look at lastActivity
IdleContainers_AnyActivity(cutoff) ==
  {i \in Ids : Exists(i) /\ containers[i].status = "RUNNING"}

\* where: { status: 'RUNNING', lastActivity: { lt: cutoffTime } }; a null
\* lastActivity matches no comparison
IdleContainers(cutoff) ==
  {i \in Ids : /\ Exists(i)
               /\ containers[i].status = "RUNNING"
               /\ containers[i].lastActivity # Null
               /\ containers[i].lastActivity < cutoff}

\* forceCleanupContainers' where: userId if given, status in options.status if given
Matching(where) ==
  {i \in Ids : /\ Exists(i)
               /\ where.userId # "" => containers[i].userId = where.userId
               /\ containers[i].status \in where.status}

\* cleanupIdleContainers(timeoutMinutes): the cutoff is computed before the query
CallCleanup(t, timeoutMinutes) ==
  /\ tasks[t].pc = "idle"
  /\ SetTask(t, [Idle EXCEPT !.op = "cleanup", !.pc = "batch_find", !.cutoff = now - timeoutMinutes])
  /\ UNCHANGED <<containers, nextId, auditLog, auditing, docker, nextHandle, notMgr>>

\* forceCleanupContainers({userId?, status?, adminUserId, reason}); an absent
\* status filter is the filter that admits every status
CallForce(t, userId, status, adminUserId, reason) ==
  /\ tasks[t].pc = "idle"
  /\ SetTask(t, [Idle EXCEPT !.op = "force", !.pc = "batch_find",
                             !.where = [userId |-> userId, status |-> status],
                             !.admin = adminUserId, !.reason = reason])
  /\ UNCHANGED <<containers, nextId, auditLog, auditing, docker, nextHandle, notMgr>>

\* the batch call returns: forceCleanupContainers returns {cleaned, errors}
FinishBatch(t) ==
  SetTask(t, [Idle EXCEPT !.op = tasks[t].op, !.pc = "done", !.result = "returned",
                          !.batch = tasks[t].batch, !.cleaned = tasks[t].cleaned,
                          !.errors = tasks[t].errors])

\* the loop goes to item k of the array, calling stopContainer(container.id), or
\* ends
BatchLoop(t, rec, k) ==
  IF k <= Len(rec.batch)
  THEN SetTask(t, [rec EXCEPT !.k = k, !.id = rec.batch[k].id, !.caller = "batch", !.pc = "stop_find"])
  ELSE SetTask(t, [Idle EXCEPT !.op = rec.op, !.pc = "done", !.result = "returned",
                               !.batch = rec.batch, !.cleaned = rec.cleaned, !.errors = rec.errors])

\* container.findMany: the loop starts on the rows returned; a failed query goes
\* to the outer catch, which for forceCleanupContainers pushes a message
BatchFind(t) ==
  /\ tasks[t].pc = "batch_find"
  /\ \E ok \in BOOLEAN :
       IF ok
       THEN \E q \in Orders(IF tasks[t].op = "cleanup" THEN IdleContainers(tasks[t].cutoff)
                                                       ELSE Matching(tasks[t].where)) :
              BatchLoop(t, [tasks[t] EXCEPT !.batch = Rows(q)], 1)
       ELSE SetTask(t, [tasks[t] EXCEPT !.pc = "batch_fail_audit",
                          !.errors = IF tasks[t].op = "force" THEN {Null} ELSE {}])
  /\ UNCHANGED <<containers, nextId, auditLog, auditing, docker, nextHandle, notMgr>>

\* stopContainer returned: logAuditAction('CLEANUP_IDLE', ...) or
\* logAuditAction('FORCE_CLEANUP', ..., `Force cleanup by admin: ${reason}`,
\* adminUserId) and cleaned++; then the next item
BatchAudit(t) ==
  /\ tasks[t].pc = "batch_audit"
  /\ \E ok \in BOOLEAN :
       IF tasks[t].op = "cleanup"
       THEN LogAuditAction("CLEANUP_IDLE", tasks[t].id, tasks[t].batch[tasks[t].k].userId, "", "", ok)
       ELSE LogAuditAction("FORCE_CLEANUP", tasks[t].id, tasks[t].batch[tasks[t].k].userId,
                           tasks[t].admin, tasks[t].reason, ok)
  /\ BatchLoop(t, [tasks[t] EXCEPT !.cleaned = IF tasks[t].op = "force" THEN @ + 1 ELSE @],
               tasks[t].k + 1)
  /\ UNCHANGED <<containers, nextId, auditing, docker, nextHandle, notMgr>>

\* (mutant of BatchErrAudit) a loop that ends at the first item that fails
BatchErrAudit_Aborts(t) ==
  /\ tasks[t].pc = "batch_err_audit"
  /\ \E ok \in BOOLEAN :
       LogAuditAction("ERROR", tasks[t].id, tasks[t].batch[tasks[t].k].userId,
                      IF tasks[t].op = "force" THEN tasks[t].admin ELSE "", "", ok)
  /\ FinishBatch(t)
  /\ UNCHANGED <<containers, nextId, auditing, docker, nextHandle, notMgr>>

\* stopContainer threw: the item's catch has reported the failure (FinishStop);
\* logAuditAction('ERROR', ...), whose text is the error message, with
\* adminUserId for forceCleanupContainers; then the next item
BatchErrAudit(t) ==
  /\ tasks[t].pc = "batch_err_audit"
  /\ \E ok \in BOOLEAN :
       LogAuditAction("ERROR", tasks[t].id, tasks[t].batch[tasks[t].k].userId,
                      IF tasks[t].op = "force" THEN tasks[t].admin ELSE "", "", ok)
  /\ BatchLoop(t, tasks[t], tasks[t].k + 1)
  /\ UNCHANGED <<containers, nextId, auditing, docker, nextHandle, notMgr>>

\* the outer catch: logAuditAction('ERROR', '', '', ...), then return
BatchFailAudit(t) ==
  /\ tasks[t].pc = "batch_fail_audit"
  /\ \E ok \in BOOLEAN :
       LogAuditAction("ERROR", Null, "", IF tasks[t].op = "force" THEN tasks[t].admin ELSE "", "", ok)
  /\ FinishBatch(t)
  /\ UNCHANGED <<containers, nextId, auditing, docker, nextHandle, notMgr>>

(* ------- getUserContainer, getAuditLogs, getAllContainers ------------- *)
CallGetUserContainer(t, userId) ==
  /\ tasks[t].pc = "idle"
  /\ SetTask(t, [Idle EXCEPT !.op = "get", !.pc = "get_find", !.userId = userId])
  /\ UNCHANGED <<containers, nextId, auditLog, auditing, docker, nextHandle, notMgr>>

\* findFirst({where: {userId, name: 'default'}}): the record, Null if there is none
DefaultContainer(userId) ==
  LET own == {i \in Ids : /\ Exists(i)
                          /\ containers[i].userId = userId
                          /\ containers[i].name = "default"}
  IN  IF own = {} THEN Null ELSE CHOOSE i \in own : TRUE

\* getUserContainer: the record found (or null) is returned; a store failure
\* throws 'Failed to get container information'
GetUserContainerFind(t) ==
  /\ tasks[t].pc = "get_find"
  /\ \E ok \in BOOLEAN :
       IF ok
       THEN SetTask(t, [Idle EXCEPT !.op = "get", !.pc = "done", !.userId = tasks[t].userId,
                                    !.found = DefaultContainer(tasks[t].userId),
                                    !.result = "returned"])
       ELSE SetTask(t, [Idle EXCEPT !.op = "get", !.pc = "done", !.userId = tasks[t].userId,
                                    !.result = "threw"])
  /\ UNCHANGED <<containers, nextId, auditLog, auditing, docker, nextHandle, notMgr>>

\* getAuditLogs({userId?}) and getAllContainers({userId?})
CallGetAuditLogs(t, userId) ==
  /\ tasks[t].pc = "idle"
  /\ SetTask(t, [Idle EXCEPT !.op = "logs", !.pc = "read_find", !.where.userId = userId])
  /\ UNCHANGED <<containers, nextId, auditLog, auditing, docker, nextHandle, notMgr>>

CallGetAllContainers(t, userId) ==
  /\ tasks[t].pc = "idle"
  /\ SetTask(t, [Idle EXCEPT !.op = "all", !.pc = "read_find", !.where.userId = userId])
  /\ UNCHANGED <<containers, nextId, auditLog, auditing, docker, nextHandle, notMgr>>

\* (mutant of ReadOutcome) a read that lets the store's error through
ReadOutcome_Rethrows(ok) == IF ok THEN "returned" ELSE "threw"

\* both reads catch every error and return []
ReadOutcome(ok) == "returned"

\* findMany completes: the rows are returned, or [] from the catch
ReadFind(t) ==
  /\ tasks[t].pc = "read_find"
  /\ \E ok \in BOOLEAN :
       LET u == tasks[t].where.userId
           rows == IF tasks[t].op = "logs"
                   THEN {a \in auditLog : u # "" => a.userId = u}
                   ELSE {i \in Ids : Exists(i) /\ (u # "" => containers[i].userId = u)}
       IN  SetTask(t, [Idle EXCEPT !.op = tasks[t].op, !.pc = "done", !.where = tasks[t].where,
                                   !.rows = IF ok THEN rows ELSE {},
                                   !.result = ReadOutcome(ok)])
  /\ UNCHANGED <<containers, nextId, auditLog, auditing, docker, nextHandle, notMgr>>

(* =========================== CircuitBreaker =========================== *)
\* a new CircuitBreaker
InitBreaker ==
  /\ state = "CLOSED"
  /\ failureCount = 0
  /\ successCount = 0
  /\ lastFailureTime = 0
  /\ nextAttemptTime = 0
  /\ requestHistory = <<>>

\* an execute invocation: whether a fallback was passed, whether the operation
\* was invoked, the breaker's state once the call was admitted, and how the
\* call ended
NoCall == [pc |-> "idle", fallback |-> FALSE, invoked |-> FALSE, admitted |-> "", result |-> "none"]

\* the operations that execute has invoked and that have not completed
InFlight ==
  Cardinality({c \in Calls : calls[c].pc = "running"})
    + Cardinality({t \in PoolTasks : poolTasks[t].pc = "get_create"})

\* the breaker's history has room for one more sample
CanCall(n) == Len(requestHistory) + InFlight < n

\* cleanOldRequests: drop the samples with timestamp < Date.now() - monitoringPeriod
CleanOldRequests(h) == SelectSeq(h, LAMBDA r : ~(r.timestamp < now - MonitoringPeriod))

\* recordRequest: push, then cleanOldRequests
RecordRequest(h, success) ==
  CleanOldRequests(Append(h, [timestamp |-> now, success |-> success]))

Failures(h) == Len(SelectSeq(h, LAMBDA r : ~r.success))

\* (mutant of ShouldOpenCircuit) failureRate >= expectedFailureRate
ShouldOpenCircuit_AtRate(h) ==
  /\ Len(CleanOldRequests(h)) >= MinimumRequestThreshold
  /\ Failures(CleanOldRequests(h)) * RateDen >= RateNum * Len(CleanOldRequests(h))

\* shouldOpenCircuit, on the history as recordRequest left it:
\* failures / totalRequests > expectedFailureRate
ShouldOpenCircuit(h) ==
  LET totalRequests == Len(CleanOldRequests(h))
  IN  IF totalRequests < MinimumRequestThreshold
      THEN FALSE
      ELSE Failures(CleanOldRequests(h)) * RateDen > RateNum * totalRequests

\* (mutant of Rejected) an execute that never fails fast
Rejected_Never == FALSE

\* execute, first branch: the circuit is OPEN and it is not yet time to retry
Rejected == state = "OPEN" /\ now < nextAttemptTime

\* execute, otherwise: an OPEN circuit moves to HALF_OPEN
AdmittedState == IF state = "OPEN" THEN "HALF_OPEN" ELSE state

\* onSuccess, with the breaker in state s
OnSuccess(s) ==
  /\ requestHistory' = RecordRequest(requestHistory, TRUE)
  /\ successCount' = successCount + 1
  /\ state' = IF s = "HALF_OPEN" THEN "CLOSED" ELSE s
  /\ failureCount' = IF s = "HALF_OPEN" THEN 0 ELSE failureCount
  /\ UNCHANGED <<lastFailureTime, nextAttemptTime>>

\* onFailure; openCircuit sets OPEN and nextAttemptTime
OnFailure ==
  /\ requestHistory' = RecordRequest(requestHistory, FALSE)
  /\ failureCount' = failureCount + 1
  /\ lastFailureTime' = now
  /\ IF state = "HALF_OPEN" \/ ShouldOpenCircuit(RecordRequest(requestHistory, FALSE))
     THEN /\ state' = "OPEN"
          /\ nextAttemptTime' = now + RecoveryTimeout
     ELSE UNCHANGED <<state, nextAttemptTime>>
  /\ UNCHANGED successCount

\* a new invocation takes the first free slot
FreeCall(c) == \A d \in Calls : d < c => calls[d].pc # "idle"

\* execute(operation, fallback?) up to await operation()
Execute(c, fb) ==
  /\ calls[c].pc = "idle"
  /\ IF Rejected
     THEN /\ calls' = [calls EXCEPT ![c] =
                         [NoCall EXCEPT !.pc = "done", !.fallback = fb,
                                        !.result = IF fb THEN "fallback" ELSE "circuit_open"]]
          /\ UNCHANGED state
     ELSE /\ state' = AdmittedState
          /\ calls' = [calls EXCEPT ![c] =
                         [NoCall EXCEPT !.pc = "running", !.fallback = fb, !.invoked = TRUE,
                                        !.admitted = AdmittedState]]
  /\ UNCHANGED <<failureCount, successCount, lastFailureTime, nextAttemptTime, requestHistory, now>>
  /\ UNCHANGED notBreaker

\* the operation resolves: onSuccess, return result
OperationSucceeds(c) ==
  /\ calls[c].pc = "running"
  /\ OnSuccess(state)
  /\ calls' = [calls EXCEPT ![c].pc = "done", ![c].result = "value"]
  /\ UNCHANGED now
  /\ UNCHANGED notBreaker

\* (mutant of RunsFallback) a catch that runs the fallback whenever one was passed
RunsFallback_WheneverGiven(fb, currentState) == fb

\* execute's catch: if (fallback && currentState === CircuitState.OPEN)
RunsFallback(fb, currentState) == fb /\ currentState = "OPEN"

\* the operation rejects: onFailure, then the fallback if one was passed and the
\* circuit is now OPEN, else rethrow
OperationFails(c) ==
  /\ calls[c].pc = "running"
  /\ OnFailure
  /\ calls' = [calls EXCEPT ![c].pc = "done",
                            ![c].result = IF RunsFallback(calls[c].fallback, state')
                                          THEN "fallback" ELSE "error"]
  /\ UNCHANGED now
  /\ UNCHANGED notBreaker

\* the caller takes the result
ReturnCall(c) ==
  /\ calls[c].pc = "done"
  /\ calls' = [calls EXCEPT ![c] = NoCall]
  /\ UNCHANGED <<cbVars, now>>
  /\ UNCHANGED notBreaker

\* getStats: cleanOldRequests, then a report
GetStats ==
  /\ requestHistory' = CleanOldRequests(requestHistory)
  /\ UNCHANGED <<state, failureCount, successCount, lastFailureTime, nextAttemptTime, calls, now>>
  /\ UNCHANGED notBreaker

ForceOpen ==
  /\ state' = "OPEN"
  /\ nextAttemptTime' = now + RecoveryTimeout
  /\ UNCHANGED <<failureCount, successCount, lastFailureTime, requestHistory, calls, now>>
  /\ UNCHANGED notBreaker

ForceClose ==
  /\ state' = "CLOSED"
  /\ failureCount' = 0
  /\ nextAttemptTime' = 0
  /\ UNCHANGED <<successCount, lastFailureTime, requestHistory, calls, now>>
  /\ UNCHANGED notBreaker

\* reset (named ResetBreaker: the pool has a reset of its own)
ResetBreaker ==
  /\ state' = "CLOSED"
  /\ failureCount' = 0
  /\ successCount' = 0
  /\ lastFailureTime' = 0
  /\ nextAttemptTime' = 0
  /\ requestHistory' = <<>>
  /\ UNCHANGED <<calls, now>>
  /\ UNCHANGED notBreaker

\* the clock advances
Tick ==
  /\ now < MaxTime
  /\ now' = now + 1
  /\ UNCHANGED <<cbVars, calls>>
  /\ UNCHANGED notBreaker

(* ============================ ContainerPool =========================== *)
NoEntry == [image |-> "", reserved |-> FALSE, createdAt |-> Null, lastUsed |-> Null, port |-> Null]

\* a pool method invocation and its locals.  For shutdown and the timer's
\* cleanupIdleContainers: m is the position of the iteration over pool.entries(),
\* arr the array shutdown's inner loop iterates, idle the array filter returned
\* to cleanupIdleContainers, k the position of the inner loop, cutoff the
\* cutoffTime; began (the entries tracked when the call began) and applied (the
\* ids the call has passed to removeContainer) are history.
NoPoolTask == [op |-> "none", pc |-> "idle", id |-> Null, image |-> "", imagePool |-> Null,
               containerIndex |-> Null, port |-> Null, m |-> 0, arr |-> Null, idle |-> <<>>,
               k |-> 0, cutoff |-> Null, began |-> {}, applied |-> {}, result |-> Null]

\* Math.ceil(poolSize / preWarmImages.length)
TargetCount == (PoolSize + Len(PreWarmImages) - 1) \div Len(PreWarmImages)

\* the entries of an array, as a set
Elems(s) == {s[k] : k \in 1..Len(s)}

\* the ports of the entries of every array in the map
PoolUsedPorts ==
  {entry[e].port : e \in UNION {Elems(arrays[pool[i]]) : i \in {j \in Images : pool[j] # Null}}} \ {Null}

\* getAvailablePort: the first port from PoolPortBase not in used, Null when the
\* scan finds none ('No available ports in pool range')
PoolAvailablePort(used) ==
  IF PoolPorts \subseteq used THEN Null
  ELSE CHOOSE p \in PoolPorts \ used : \A q \in PoolPorts \ used : p <= q

\* the constructor: a bucket per pre-warm image, startCleanupInterval, then
\* preWarmContainers up to its first await (createPooledContainer has scanned the ports of the empty pool)
InitPool ==
  /\ pool = [i \in Images |-> IF i = PreWarmImages[1] THEN 1 ELSE Null]
  /\ arrays = [r \in ArrayRefs |-> <<>>]
  /\ nextArray = 2
  /\ entry = [e \in EntryIds |-> NoEntry]
  /\ nextEntry = 1
  /\ poolDocker = [e \in EntryIds |-> NoContainer]
  /\ prewarm = [pc |-> "create", i |-> 0, currentPool |-> 1, port |-> PoolPortBase]
  /\ poolTasks = [t \in PoolTasks |-> NoPoolTask]
  /\ handed = [e \in EntryIds |-> 0]
  /\ resetFailed = {}
  /\ cleanupInterval = TRUE

\* imagePool.find / findIndex: the first position that holds entry id, 0 if none
IndexOf(s, id) ==
  IF id \in Elems(s) THEN CHOOSE k \in 1..Len(s) : s[k] = id /\ \A j \in 1..(k - 1) : s[j] # id
  ELSE 0

\* imagePool.splice(k, 1)
Splice(s, k) == [j \in 1..(Len(s) - (IF k \in 1..Len(s) THEN 1 ELSE 0)) |-> IF j < k THEN s[j] ELSE s[j + 1]]

\* the buckets of the map that hold entry id
BucketsOf(id) == {i \in Images : pool[i] # Null /\ id \in Elems(arrays[pool[i]])}

Tracked(id) == BucketsOf(id) # {}

\* the ids of the entries the pool has created: the ids a caller can know
Created == {e \in EntryIds : entry[e] # NoEntry}

\* the runtime accepts the start of a pooled container publishing port p when no
\* running pooled container publishes it
PoolStartOk(p) == \A g \in EntryIds : poolDocker[g].state = "running" => poolDocker[g].port # p

\* (mutant of Available) a find that does not look at reserved
Available_IgnoresReserved(e) == entry[e] # NoEntry

\* getContainer's test on an entry: container => !container.reserved
Available(e) == ~entry[e].reserved

\* imagePool.find(container => !container.reserved), Null if there is none
FirstAvailable(s) ==
  IF \E k \in 1..Len(s) : Available(s[k])
  THEN s[CHOOSE k \in 1..Len(s) : Available(s[k]) /\ \A j \in 1..(k - 1) : ~Available(s[j])]
  ELSE Null

SetPoolTask(t, rec) == poolTasks' = [poolTasks EXCEPT ![t] = rec]

\* the method returns (the pool's methods catch every error)
FinishPool(t, result) ==
  SetPoolTask(t, [NoPoolTask EXCEPT !.op = poolTasks[t].op, !.pc = "done", !.result = result])

\* the caller takes the result
ReturnPool(t) ==
  /\ poolTasks[t].pc = "done"
  /\ SetPoolTask(t, NoPoolTask)
  /\ UNCHANGED <<pool, arrays, nextArray, entry, nextEntry, poolDocker, prewarm, handed, resetFailed>>
  /\ UNCHANGED cbVars
  /\ UNCHANGED <<cleanupInterval, notPool>>

FreePool(t) == \A u \in PoolTasks : u < t => poolTasks[u].pc # "idle"

\* the entry created by createPooledContainer: createdAt: new Date(), no lastUsed
NewEntry(image, port, reserved) ==
  [image |-> image, reserved |-> reserved, createdAt |-> now, lastUsed |-> Null, port |-> port]

\* getContainer(image), up to its first pending await.  circuitBreakers.docker
\* .execute rejects the call (fallback: null) or invokes the operation, which
\* reserves the first unreserved entry of the image's array and returns it, or
\* enters createPooledContainer (which scans the ports before its first await),
\* or returns null.  The operation never throws, so execute ends in onSuccess.
GetContainer(t, image) ==
  /\ poolTasks[t].pc = "idle"
  /\ pool[image] = Null => nextArray <= MaxArrays
  /\ LET imagePool == IF pool[image] = Null THEN <<>> ELSE arrays[pool[image]]
         availableContainer == FirstAvailable(imagePool)
         port == PoolAvailablePort(PoolUsedPorts)
         call == [NoPoolTask EXCEPT !.op = "get"]
     IN  IF Rejected
         THEN /\ SetPoolTask(t, [call EXCEPT !.pc = "done"])
              /\ UNCHANGED <<entry, handed, cbVars>>
         ELSE IF availableContainer # Null
         THEN /\ entry' = [entry EXCEPT ![availableContainer].reserved = TRUE,
                                        ![availableContainer].lastUsed = now]
              /\ handed' = [handed EXCEPT ![availableContainer] = IF @ < 2 THEN @ + 1 ELSE @]
              /\ OnSuccess(AdmittedState)
              /\ SetPoolTask(t, [call EXCEPT !.pc = "done", !.result = availableContainer])
         ELSE IF Len(imagePool) < MaxContainersPerImage /\ port # Null
         THEN /\ state' = AdmittedState
              /\ SetPoolTask(t, [call EXCEPT !.pc = "get_create", !.image = image,
                                             !.imagePool = pool[image], !.port = port])
              /\ UNCHANGED <<entry, handed, failureCount, successCount, lastFailureTime,
                             nextAttemptTime, requestHistory>>
         ELSE /\ OnSuccess(AdmittedState)
              /\ SetPoolTask(t, [call EXCEPT !.pc = "done"])
              /\ UNCHANGED <<entry, handed>>
  /\ UNCHANGED <<pool, arrays, nextArray, nextEntry, poolDocker, prewarm, resetFailed>>
  /\ UNCHANGED <<cleanupInterval, notPool>>

\* createPooledContainer's docker.createContainer and start complete, then
\* getContainer's continuation: reserve the new entry, push it on the array the
\* call read (a new array if the image had none), pool.set, return it; on either
\* failure createPooledContainer returns null, and so does getContainer
GetCreated(t) ==
  /\ poolTasks[t].pc = "get_create"
  /\ \E outcome \in {"create_fails", "start_fails", "started"} :
       LET ref == IF poolTasks[t].imagePool = Null THEN nextArray ELSE poolTasks[t].imagePool
       IN  IF outcome = "create_fails" \/ nextEntry > MaxEntries
           THEN /\ FinishPool(t, Null)
                /\ UNCHANGED <<pool, arrays, nextArray, entry, nextEntry, poolDocker, handed>>
           ELSE IF outcome = "start_fails" \/ ~PoolStartOk(poolTasks[t].port)
           THEN /\ poolDocker' = [poolDocker EXCEPT ![nextEntry] =
                                    [state |-> "exited", port |-> poolTasks[t].port]]
                /\ nextEntry' = nextEntry + 1
                /\ FinishPool(t, Null)
                /\ UNCHANGED <<pool, arrays, nextArray, entry, handed>>
           ELSE /\ poolDocker' = [poolDocker EXCEPT ![nextEntry] =
                                    [state |-> "running", port |-> poolTasks[t].port]]
                /\ nextEntry' = nextEntry + 1
                /\ entry' = [entry EXCEPT ![nextEntry] =
                               NewEntry(poolTasks[t].image, poolTasks[t].port, TRUE)]
                /\ handed' = [handed EXCEPT ![nextEntry] = 1]
                /\ arrays' = [arrays EXCEPT ![ref] = Append(@, nextEntry)]
                /\ pool' = [pool EXCEPT ![poolTasks[t].image] = ref]
                /\ nextArray' = IF poolTasks[t].imagePool = Null THEN nextArray + 1 ELSE nextArray
                /\ SetPoolTask(t, [NoPoolTask EXCEPT !.op = "get", !.pc = "done", !.result = nextEntry])
  /\ OnSuccess(state)
  /\ UNCHANGED <<prewarm, resetFailed>>
  /\ UNCHANGED <<cleanupInterval, notPool>>

\* removeContainer(containerId), up to its first await: findIndex over the
\* arrays of the map; the index and the array are kept across the awaits
BeginRemove(t, op, id) ==
  IF Tracked(id)
  THEN LET image == CHOOSE i \in BucketsOf(id) : TRUE
       IN  SetPoolTask(t, [NoPoolTask EXCEPT !.op = op, !.pc = "remove_docker", !.id = id,
                                             !.image = image, !.imagePool = pool[image],
                                             !.containerIndex = IndexOf(arrays[pool[image]], id)])
  ELSE SetPoolTask(t, [NoPoolTask EXCEPT !.op = op, !.pc = "done"])

\* returnContainer(containerId), up to its first await: the entry is unreserved
\* and touched, then resetContainer starts the in-container cleanup
ReturnContainer(t, id) ==
  /\ poolTasks[t].pc = "idle"
  /\ IF Tracked(id)
     THEN /\ entry' = [entry EXCEPT ![id].reserved = FALSE, ![id].lastUsed = now]
          /\ handed' = [handed EXCEPT ![id] = 0]
          /\ SetPoolTask(t, [NoPoolTask EXCEPT !.op = "return", !.pc = "reset", !.id = id])
     ELSE /\ SetPoolTask(t, [NoPoolTask EXCEPT !.op = "return", !.pc = "done"])
          /\ UNCHANGED <<entry, handed>>
  /\ UNCHANGED <<pool, arrays, nextArray, nextEntry, poolDocker, prewarm, resetFailed>>
  /\ UNCHANGED cbVars
  /\ UNCHANGED <<cleanupInterval, notPool>>

\* resetContainer: dockerContainer.exec and exec.start complete; the runtime runs
\* the command only in a running container.  On failure resetContainer calls
\* removeContainer
ResetDone(t) ==
  /\ poolTasks[t].pc = "reset"
  /\ \E ok \in BOOLEAN :
       IF ok /\ poolDocker[poolTasks[t].id].state = "running"
       THEN /\ FinishPool(t, Null)
            /\ UNCHANGED resetFailed
       ELSE /\ resetFailed' = resetFailed \cup {poolTasks[t].id}
            /\ BeginRemove(t, "return", poolTasks[t].id)
  /\ UNCHANGED <<pool, arrays, nextArray, entry, nextEntry, poolDocker, prewarm, handed>>
  /\ UNCHANGED cbVars
  /\ UNCHANGED <<cleanupInterval, notPool>>

RemoveContainer(t, id) ==
  /\ poolTasks[t].pc = "idle"
  /\ BeginRemove(t, "remove", id)
  /\ UNCHANGED <<pool, arrays, nextArray, entry, nextEntry, poolDocker, prewarm, handed, resetFailed>>
  /\ UNCHANGED cbVars
  /\ UNCHANGED <<cleanupInterval, notPool>>

\* the buckets of the map pl over the arrays arrs that hold entry id
BucketsOfIn(pl, arrs, id) == {i \in Images : pl[i] # Null /\ id \in Elems(arrs[pl[i]])}

\* cleanupIdleContainers' filter over one array: !container.reserved &&
\* container.lastUsed && container.lastUsed < cutoffTime
IdleEntries(s, cutoff) ==
  SelectSeq(s, LAMBDA e : ~entry[e].reserved /\ entry[e].lastUsed # Null /\ entry[e].lastUsed < cutoff)

\* pool.clear()
Cleared == [i \in Images |-> Null]

\* The loops of shutdown and cleanupIdleContainers, run from the position held
\* in r over the map pl and the arrays arrs up to the next await: shutdown's
\* inner loop reads the array itself (for ... of imagePool, by position),
\* cleanupIdleContainers' the array filter returned.  removeContainer(id) awaits
\* the runtime when it finds the entry (findIndex over the arrays of the map) and
\* returns at once when it does not; when both loops are over the call returns.
RECURSIVE LoopPos(_, _, _)
LoopPos(pl, arrs, r) ==
  LET items == IF r.op = "cleanup" THEN r.idle
               ELSE IF r.arr = Null THEN <<>> ELSE arrs[r.arr]
  IN  IF r.k <= Len(items)
      THEN LET id == items[r.k]
           IN  IF BucketsOfIn(pl, arrs, id) # {}
               THEN LET image == CHOOSE i \in BucketsOfIn(pl, arrs, id) : TRUE
                    IN  [r EXCEPT !.pc = "remove_docker", !.id = id, !.image = image,
                                  !.imagePool = pl[image],
                                  !.containerIndex = IndexOf(arrs[pl[image]], id),
                                  !.applied = @ \cup {id}]
               ELSE LoopPos(pl, arrs, [r EXCEPT !.k = @ + 1, !.applied = @ \cup {id}])
      ELSE IF r.m >= Len(ImageOrder)
      THEN [NoPoolTask EXCEPT !.op = r.op, !.pc = "done", !.began = r.began, !.applied = r.applied]
      ELSE LET a == pl[ImageOrder[r.m + 1]]
           IN  LoopPos(pl, arrs,
                       [r EXCEPT !.m = @ + 1, !.arr = a, !.k = 1,
                                 !.idle = IF r.op = "cleanup" /\ a # Null
                                          THEN IdleEntries(arrs[a], r.cutoff) ELSE <<>>])

\* removeContainer: dockerContainer.stop and remove complete (a failure is logged
\* and swallowed; remove is skipped when stop fails), then
\* imagePool.splice(containerIndex, 1) and pool.set(image, imagePool); when
\* shutdown or cleanupIdleContainers made the call, its loop goes on, and
\* shutdown ends with pool.clear()
RemoveDocker(t) ==
  /\ poolTasks[t].pc = "remove_docker"
  /\ \E outcome \in {"stop_fails", "remove_fails", "removed"} :
       IF outcome = "stop_fails" \/ poolDocker[poolTasks[t].id].state # "running"
       THEN UNCHANGED poolDocker
       ELSE IF outcome = "remove_fails"
       THEN poolDocker' = [poolDocker EXCEPT ![poolTasks[t].id].state = "exited"]
       ELSE poolDocker' = [poolDocker EXCEPT ![poolTasks[t].id] = NoContainer]
  /\ LET arrs == [arrays EXCEPT ![poolTasks[t].imagePool] = Splice(@, poolTasks[t].containerIndex)]
         pl == [pool EXCEPT ![poolTasks[t].image] = poolTasks[t].imagePool]
         next == LoopPos(pl, arrs, [poolTasks[t] EXCEPT !.k = @ + 1])
     IN  /\ arrays' = arrs
         /\ IF poolTasks[t].op \in {"shutdown", "cleanup"}
            THEN /\ pool' = IF poolTasks[t].op = "shutdown" /\ next.pc = "done" THEN Cleared ELSE pl
                 /\ SetPoolTask(t, next)
            ELSE /\ pool' = pl
                 /\ FinishPool(t, Null)
  /\ UNCHANGED <<nextArray, entry, nextEntry, prewarm, handed, resetFailed>>
  /\ UNCHANGED cbVars
  /\ UNCHANGED <<cleanupInterval, notPool>>

\* shutdown(), up to its first await: clearInterval, then the loops over
\* pool.entries(); pool.clear() at once when there is nothing to remove
Shutdown(t) ==
  /\ poolTasks[t].pc = "idle"
  /\ cleanupInterval' = FALSE
  /\ LET next == LoopPos(pool, arrays,
                         [NoPoolTask EXCEPT !.op = "shutdown", !.k = 1,
                                            !.began = {e \in EntryIds : Tracked(e)}])
     IN  /\ SetPoolTask(t, next)
         /\ pool' = IF next.pc = "done" THEN Cleared ELSE pool
  /\ UNCHANGED <<arrays, nextArray, entry, nextEntry, poolDocker, prewarm, handed, resetFailed>>
  /\ UNCHANGED cbVars
  /\ UNCHANGED notPool

\* the timer fires: cleanupIdleContainers(), up to its first await
PoolCleanupIdleContainers(t) ==
  /\ poolTasks[t].pc = "idle"
  /\ cleanupInterval
  /\ SetPoolTask(t, LoopPos(pool, arrays,
                            [NoPoolTask EXCEPT !.op = "cleanup", !.k = 1,
                                               !.cutoff = now - MaxIdleTime]))
  /\ UNCHANGED <<pool, arrays, nextArray, entry, nextEntry, poolDocker, prewarm, handed, resetFailed>>
  /\ UNCHANGED cbVars
  /\ UNCHANGED <<cleanupInterval, notPool>>

\* preWarmContainers: the loop goes on with iteration i; createPooledContainer
\* scans the ports (used) and awaits the runtime, or returns null at once when
\* the scan finds no port, which ends no iteration but creates nothing
PreWarmLoop(i, used) ==
  IF i < TargetCount /\ PoolAvailablePort(used) # Null
  THEN [prewarm EXCEPT !.pc = "create", !.i = i, !.port = PoolAvailablePort(used)]
  ELSE [pc |-> "done", i |-> 0, currentPool |-> Null, port |-> Null]

\* preWarmContainers: createPooledContainer completes; the entry is pushed
\* unreserved on currentPool and the loop sleeps 1 s, or the loop goes on
PreWarmCreated ==
  /\ prewarm.pc = "create"
  /\ \E outcome \in {"create_fails", "start_fails", "started"} :
       IF outcome = "create_fails" \/ nextEntry > MaxEntries
       THEN /\ prewarm' = PreWarmLoop(prewarm.i + 1, PoolUsedPorts)
            /\ UNCHANGED <<pool, arrays, entry, nextEntry, poolDocker>>
       ELSE IF outcome = "start_fails" \/ ~PoolStartOk(prewarm.port)
       THEN /\ poolDocker' = [poolDocker EXCEPT ![nextEntry] =
                                [state |-> "exited", port |-> prewarm.port]]
            /\ nextEntry' = nextEntry + 1
            /\ prewarm' = PreWarmLoop(prewarm.i + 1, PoolUsedPorts)
            /\ UNCHANGED <<pool, arrays, entry>>
       ELSE /\ poolDocker' = [poolDocker EXCEPT ![nextEntry] =
                                [state |-> "running", port |-> prewarm.port]]
            /\ nextEntry' = nextEntry + 1
            /\ entry' = [entry EXCEPT ![nextEntry] = NewEntry(PreWarmImages[1], prewarm.port, FALSE)]
            /\ arrays' = [arrays EXCEPT ![prewarm.currentPool] = Append(@, nextEntry)]
            /\ pool' = [pool EXCEPT ![PreWarmImages[1]] = prewarm.currentPool]
            /\ prewarm' = [prewarm EXCEPT !.pc = "delay", !.port = Null]
  /\ UNCHANGED <<nextArray, poolTasks, handed, resetFailed>>
  /\ UNCHANGED cbVars
  /\ UNCHANGED <<cleanupInterval, notPool>>

\* preWarmContainers: the 1 s sleep is over
PreWarmDelay ==
  /\ prewarm.pc = "delay"
  /\ prewarm' = PreWarmLoop(prewarm.i + 1, PoolUsedPorts)
  /\ UNCHANGED <<pool, arrays, nextArray, entry, nextEntry, poolDocker, poolTasks, handed, resetFailed>>
  /\ UNCHANGED cbVars
  /\ UNCHANGED <<cleanupInterval, notPool>>

(* --------------------------- specifications --------------------------- *)
vars == <<mgrVars, poolVars, cbVars, calls, now>>

\* the pool and the breaker as constructed, untouched by the manager's handlers
InitRest == InitPool /\ InitBreaker /\ calls = [c \in Calls |-> NoCall] /\ now = 1

CreateSteps(t) == CreateFind(t) \/ CreateInsert(t) \/ CreateAudit(t)

StartSteps(t) ==
  \/ StartFind(t) \/ StartMark(t) \/ StartPort(t) \/ StartInspect(t) \/ StartCreate(t)
  \/ StartRun(t) \/ StartPersist(t) \/ StartAudit(t) \/ StartErr(t) \/ StartErrAudit(t)

StopSteps(t) ==
  \/ StopFind(t) \/ StopMark(t) \/ StopDockerStop(t) \/ StopDockerRemove(t)
  \/ StopPersist(t) \/ StopAudit(t) \/ StopPersistErr(t) \/ StopErrAudit(t)

DeleteSteps(t) == DeleteFind(t) \/ DeleteRemove(t) \/ DeleteAudit(t) \/ DeleteErrAudit(t)

BatchSteps(t) == BatchFind(t) \/ BatchAudit(t) \/ BatchErrAudit(t) \/ BatchFailAudit(t)

\* Spec: the manager's handlers called one after the other (each call completes
\* before the next begins) by any user, from the empty store
Init == InitEmpty /\ auditing = FALSE /\ InitRest

Next ==
  \/ \E u \in Users, n \in Names : CallCreate(1, u, n)
  \/ CreateSteps(1)
  \/ \E id \in Ids : CallStart(1, id)
  \/ StartSteps(1)
  \/ \E id \in Ids : CallStop(1, id)
  \/ StopSteps(1)
  \/ \E id \in Ids, a \in Admins, r \in Reasons : CallDelete(1, id, a, r)
  \/ DeleteSteps(1)
  \/ Return(1)

Spec == Init /\ [][Next]_vars

\* SpecCreate: createContainer and deleteContainer calls of any user and the reads
\* (getUserContainer, getAuditLogs, getAllContainers), any MaxTasks of them in
\* flight at once, with the AuditLog rows kept
InitCreate == InitEmpty /\ auditing = TRUE /\ InitRest

NextCreate ==
  \E t \in Tasks :
    \/ Free(t) /\ \E u \in Users, n \in Names : CallCreate(t, u, n)
    \/ CreateSteps(t)
    \/ Free(t) /\ \E u \in Users : CallGetUserContainer(t, u)
    \/ GetUserContainerFind(t)
    \/ Free(t) /\ \E u \in Users \cup {""} : CallGetAuditLogs(t, u)
    \/ Free(t) /\ \E u \in Users \cup {""} : CallGetAllContainers(t, u)
    \/ ReadFind(t)
    \/ Free(t) /\ \E id \in Ids, a \in Admins, r \in Reasons : CallDelete(t, id, a, r)
    \/ DeleteSteps(t)
    \/ Return(t)

SpecCreate == InitCreate /\ [][NextCreate]_vars

\* SpecRace: startContainer and stopContainer calls on one container, any
\* MaxTasks of them in flight at once
InitRace == InitOne /\ auditing = FALSE /\ InitRest

NextRace ==
  \E t \in Tasks :
    \/ Free(t) /\ CallStart(t, 1)
    \/ StartSteps(t)
    \/ Free(t) /\ CallStop(t, 1)
    \/ StopSteps(t)
    \/ Return(t)

SpecRace == InitRace /\ [][NextRace]_vars

\* SpecOwners: MaxContainers owners with one container each; every owner starts
\* and stops their own container, one call at a time, and the owners' calls
\* interleave (task i serves the owner of record i)
InitOwners == InitCreated /\ auditing = FALSE /\ InitRest

NextOwners ==
  \E t \in Tasks \cap Ids :
    \/ CallStart(t, t)
    \/ StartSteps(t)
    \/ CallStop(t, t)
    \/ StopSteps(t)
    \/ Return(t)

SpecOwners == InitOwners /\ [][NextOwners]_vars

\* SpecStart: startContainer and stopContainer calls on one container, one call
\* at a time, with the AuditLog rows kept
InitStart == InitOne /\ auditing = TRUE /\ InitRest

NextStart ==
  \/ CallStart(1, 1)
  \/ StartSteps(1)
  \/ CallStop(1, 1)
  \/ StopSteps(1)
  \/ Return(1)

SpecStart == InitStart /\ [][NextStart]_vars

\* the store and the runtime once every owner has created their container and
\* some have started it, record i at time lastActivity[i] (0: never started):
\* the containers started get the runtime ids and the ports in the order of their
\* starts, and every CREATE and START was audited
InitStarted ==
  \E lastActivity \in [Ids -> 0..MaxTime] :
    LET running == {i \in Ids : lastActivity[i] # 0}
        rank(i) == Cardinality({j \in running : j <= i})
        owner(i) == IF i = 1 THEN "u1" ELSE "u2"
    IN  /\ \A i, j \in running : i < j => lastActivity[i] <= lastActivity[j]
        /\ containers =
             [i \in Ids |->
                IF i \in running
                THEN [NewRecord(owner(i), "default") EXCEPT
                        !.status = "RUNNING", !.port = PortBase + rank(i) - 1,
                        !.dockerId = rank(i), !.lastActivity = lastActivity[i]]
                ELSE NewRecord(owner(i), "default")]
        /\ nextId = MaxContainers + 1
        /\ auditLog = {AuditRow("CREATE", i, owner(i), "", "") : i \in Ids}
                        \cup {AuditRow("START", i, owner(i), "", "") : i \in running}
        /\ docker = [h \in Handles |->
                       IF h <= Cardinality(running)
                       THEN [state |-> "running", port |-> PortBase + h - 1]
                       ELSE NoContainer]
        /\ nextHandle = Cardinality(running) + 1
        /\ tasks = [t \in Tasks |-> Idle]

\* SpecAdmin: the idle sweep and the admin operations (force-cleanup, delete), one
\* call at a time, at time MaxTime over containers started earlier, with the
\* AuditLog rows kept
InitAdmin ==
  /\ InitStarted /\ auditing = TRUE
  /\ InitPool /\ InitBreaker /\ calls = [c \in Calls |-> NoCall] /\ now = MaxTime

NextAdmin ==
  \/ \E timeoutMinutes \in 1..MaxIdle : CallCleanup(1, timeoutMinutes)
  \/ \E u \in Users \cup {""}, st \in {Statuses, {"RUNNING"}}, a \in Admins, r \in Reasons :
       CallForce(1, u, st, a, r)
  \/ BatchSteps(1)
  \/ StopSteps(1)
  \/ \E id \in Ids, a \in Admins, r \in Reasons : CallDelete(1, id, a, r)
  \/ DeleteSteps(1)
  \/ Return(1)

SpecAdmin == InitAdmin /\ [][NextAdmin]_vars

\* the runtime creates no more than n pooled containers: every further create
\* fails
CreatesAtMost(n) == nextEntry' <= n + 1

\* the manager as constructed, untouched by the pool and the breaker
InitMgr == InitEmpty /\ auditing = FALSE

\* SpecPool: the pool from its construction: the pre-warming started by the
\* constructor, and getContainer, returnContainer and removeContainer calls for
\* the default image, any MaxPoolTasks of them in flight at once
InitPoolSpec == InitMgr /\ InitRest

NextPool ==
  \/ PreWarmCreated /\ CreatesAtMost(MaxCreated)
  \/ PreWarmDelay
  \/ \E t \in PoolTasks :
       \/ FreePool(t) /\ CanCall(MaxPoolCalls) /\ GetContainer(t, DefaultImage)
       \/ GetCreated(t) /\ CreatesAtMost(MaxCreated)
       \/ FreePool(t) /\ \E id \in Created : ReturnContainer(t, id)
       \/ ResetDone(t)
       \/ FreePool(t) /\ \E id \in Created : RemoveContainer(t, id)
       \/ RemoveDocker(t)
       \/ ReturnPool(t)

SpecPool == InitPoolSpec /\ [][NextPool]_vars

\* SpecCap: the pool from its construction: the pre-warming and getContainer
\* calls for the default image, any MaxPoolTasks of them in flight at once, with
\* room for one container more than the per-image cap
NextCap ==
  \/ PreWarmCreated
  \/ PreWarmDelay
  \/ \E t \in PoolTasks :
       \/ FreePool(t) /\ CanCall(MaxPoolCalls) /\ GetContainer(t, DefaultImage)
       \/ GetCreated(t)
       \/ ReturnPool(t)

SpecCap == InitPoolSpec /\ [][NextCap]_vars

\* SpecShutdown: the pool from its construction, its calls made one at a time,
\* shutdown among them
NextShutdown ==
  \/ PreWarmCreated /\ CreatesAtMost(MaxCreated)
  \/ PreWarmDelay
  \/ CanCall(MaxPoolCalls) /\ GetContainer(1, DefaultImage)
  \/ GetCreated(1) /\ CreatesAtMost(MaxCreated)
  \/ \E id \in Created : ReturnContainer(1, id)
  \/ ResetDone(1)
  \/ RemoveDocker(1)
  \/ Shutdown(1)
  \/ ReturnPool(1)

SpecShutdown == InitPoolSpec /\ [][NextShutdown]_vars

\* SpecEvict: the pool from its construction while the clock advances: a caller
\* that gets and returns containers one call at a time (task 1), and the timer's
\* cleanupIdleContainers runs (task 2).  The timer keeps firing, every awaited
\* runtime call completes and every result is taken.
NextEvict ==
  \/ Tick
  \/ PreWarmCreated /\ CreatesAtMost(MaxCreated)
  \/ PreWarmDelay
  \/ CanCall(MaxEvictCalls) /\ GetContainer(1, DefaultImage)
  \/ GetCreated(1) /\ CreatesAtMost(MaxCreated)
  \/ \E id \in Created : ReturnContainer(1, id)
  \/ ResetDone(1)
  \/ PoolCleanupIdleContainers(2)
  \/ \E t \in PoolTasks : RemoveDocker(t)
  \/ \E t \in PoolTasks : ReturnPool(t)

SpecEvict ==
  /\ InitPoolSpec /\ [][NextEvict]_vars
  /\ WF_vars(Tick)
  /\ WF_vars(PreWarmCreated /\ CreatesAtMost(MaxCreated)) /\ WF_vars(PreWarmDelay)
  /\ WF_vars(PoolCleanupIdleContainers(2))
  /\ \A t \in PoolTasks : WF_vars(RemoveDocker(t)) /\ WF_vars(ReturnPool(t))

\* SpecSweep: as SpecEvict, with room for a second getContainer call and no
\* assumption on what completes
NextSweep ==
  \/ Tick
  \/ PreWarmCreated /\ CreatesAtMost(MaxCreated)
  \/ PreWarmDelay
  \/ CanCall(MaxSweepCalls) /\ GetContainer(1, DefaultImage)
  \/ GetCreated(1) /\ CreatesAtMost(MaxCreated)
  \/ \E id \in Created : ReturnContainer(1, id)
  \/ ResetDone(1)
  \/ PoolCleanupIdleContainers(2)
  \/ \E t \in PoolTasks : RemoveDocker(t)
  \/ \E t \in PoolTasks : ReturnPool(t)

SpecSweep == InitPoolSpec /\ [][NextSweep]_vars

\* SpecCB: execute calls on one breaker, any MaxInflight of them in flight at
\* once, while the clock advances
NextCB ==
  \/ Tick
  \/ \E c \in Calls :
       \/ FreeCall(c) /\ CanCall(MaxRaceCalls) /\ \E fb \in BOOLEAN : Execute(c, fb)
       \/ OperationSucceeds(c)
       \/ OperationFails(c)
       \/ ReturnCall(c)

SpecCB == InitPoolSpec /\ [][NextCB]_vars

\* SpecCBSeq: execute calls on one breaker, one after the other, while the clock
\* advances
NextCBSeq ==
  \/ Tick
  \/ CanCall(MaxCalls) /\ \E fb \in BOOLEAN : Execute(1, fb)
  \/ OperationSucceeds(1)
  \/ OperationFails(1)
  \/ ReturnCall(1)

SpecCBSeq == InitPoolSpec /\ [][NextCBSeq]_vars

\* SpecCBAdmin: execute calls on one breaker, one after the other, with the
\* manual overrides and getStats, while the clock advances; the history has room
\* for the samples that open the circuit and one probe
NextCBAdmin ==
  \/ Tick
  \/ CanCall(MinimumRequestThreshold + 1) /\ \E fb \in BOOLEAN : Execute(1, fb)
  \/ OperationSucceeds(1)
  \/ OperationFails(1)
  \/ ReturnCall(1)
  \/ GetStats
  \/ ForceOpen
  \/ ForceClose
  \/ ResetBreaker

SpecCBAdmin == InitPoolSpec /\ [][NextCBAdmin]_vars

\* SpecGuard: the runtime's breaker (circuitBreakers.docker) driven by the health
\* check's execute calls, one after the other, while startContainer and
\* stopContainer calls run on one container, one call at a time, all within one
\* tick of the clock (less than recoveryTimeout); the health check's probes find
\* the runtime down, and the history has room for the samples that open the
\* circuit
NextGuard ==
  \/ CanCall(MinimumRequestThreshold) /\ Execute(1, TRUE)
  \/ OperationFails(1)
  \/ ReturnCall(1)
  \/ CallStart(1, 1)
  \/ StartSteps(1)
  \/ CallStop(1, 1)
  \/ StopSteps(1)
  \/ Return(1)

SpecGuard == InitRace /\ [][NextGuard]_vars

(* ============================== claims ================================ *)

\* the call of task t completes in this step
Completes(t) == tasks[t].pc # "done" /\ tasks'[t].pc = "done"

\* C1 (as claimed): whenever stopContainer(id) returns, whatever the record's
\* status was and whether the runtime stop/remove succeeded or failed, the record
\* is STOPPED with port = null and dockerId = null.
C1_StopReturnsStopped ==
  [][\A t \in Tasks :
       (tasks[t].op = "stop" /\ Completes(t) /\ tasks'[t].result = "returned")
       => /\ containers'[tasks[t].id].status = "STOPPED"
          /\ containers'[tasks[t].id].port = Null
          /\ containers'[tasks[t].id].dockerId = Null]_vars

\* C2 (as claimed): when startContainer(id), called on a record it found STOPPED
\* or ERROR, has completed (returned or thrown), the record is RUNNING with a port
\* and a dockerId, or ERROR with neither; it is not left STARTING.  Stated for the
\* calls whose own updates of the record the store all applied (they complete
\* after the audit of START or of ERROR); a call that fails on such an update
\* leaves the record as it was, STARTING included.
C2_StartEndsRunningOrError ==
  [][\A t \in Tasks :
       (/\ tasks[t].op = "start" /\ Completes(t)
        /\ tasks[t].pc \in {"start_audit", "start_err_audit"}
        /\ tasks[t].container.status \in {"STOPPED", "ERROR"})
       => LET r == containers'[tasks[t].id]
          IN  \/ r.status = "RUNNING" /\ r.port # Null /\ r.dockerId # Null
              \/ r.status = "ERROR" /\ r.port = Null /\ r.dockerId = Null]_vars

\* C3 (as claimed): no two RUNNING records have the same port.
C3_RunningPortsDistinct ==
  \A i, j \in Ids :
    (i # j /\ containers[i].status = "RUNNING" /\ containers[j].status = "RUNNING")
    => containers[i].port # containers[j].port

\* C6: at most one record exists per (userId, name), also after concurrent
\* createContainer calls with the same (userId, name).
C6_UniqueOwnerName ==
  \A i, j \in Ids :
    (i # j /\ Exists(i) /\ Exists(j))
    => ~(containers[i].userId = containers[j].userId /\ containers[i].name = containers[j].name)

\* C6's case: a createContainer call has passed its findUnique check and is about
\* to insert, while a record with its (userId, name) exists by now
C6_Witness ==
  \E t \in Tasks :
    /\ tasks[t].pc = "create_insert"
    /\ ~UniqueUserIdName(tasks[t].userId, tasks[t].name)

\* C4: between any two getContainer calls that return the same entry there is a
\* returnContainer call for that entry: no entry is handed out twice without a
\* returnContainer(id) in between, under any interleaving of the callers.
C4_HandedOutOnce == \A e \in EntryIds : handed[e] <= 1

\* C4's case: a getContainer call has completed while a tracked entry was handed
\* out and not returned, without getting that entry
C4_Witness ==
  \E e \in EntryIds, t \in PoolTasks :
    /\ Tracked(e) /\ entry[e].reserved /\ handed[e] = 1
    /\ poolTasks[t].op = "get" /\ poolTasks[t].pc = "done" /\ poolTasks[t].result # e

\* C5 (as claimed): once the in-container reset of a returned entry has failed,
\* getContainer does not hand that entry out again, and when that returnContainer
\* call completes the entry is no longer in the pool's bookkeeping.
C5_FailedResetEntryGone ==
  [][\A t \in PoolTasks :
       /\ (poolTasks[t].pc # "done" /\ poolTasks'[t].pc = "done"
             /\ poolTasks'[t].op = "get" /\ poolTasks'[t].result # Null)
          => poolTasks'[t].result \notin resetFailed
       /\ (poolTasks[t].op = "return" /\ poolTasks[t].pc = "remove_docker"
             /\ poolTasks'[t].pc = "done")
          => ~Tracked(poolTasks[t].id)']_vars

\* the success flags of a history, oldest first
Flags(h) == [k \in 1..Len(h) |-> h[k].success]

\* C7: with minimumRequestThreshold = 5 and expectedFailureRate = 0.5, a breaker
\* whose calls so far are 3 successes then 3 failures, all in the window, is
\* CLOSED when the 6th is recorded and OPEN when a 4th failure follows as the 7th;
\* a call made once recoveryTimeout has elapsed since then is admitted and moves
\* it to HALF_OPEN, and when that call succeeds the breaker is CLOSED.
C7_ThreeSuccessesFourFailures ==
  [][/\ (/\ requestHistory' # requestHistory
         /\ Flags(requestHistory') = <<TRUE, TRUE, TRUE, FALSE, FALSE, FALSE>>
         /\ successCount' = 3 /\ failureCount' = 3)
        => state' = "CLOSED"
     /\ (/\ requestHistory' # requestHistory
         /\ Flags(requestHistory') = <<TRUE, TRUE, TRUE, FALSE, FALSE, FALSE, FALSE>>
         /\ successCount' = 3 /\ failureCount' = 4)
        => state' = "OPEN"
     /\ (/\ Flags(requestHistory) = <<TRUE, TRUE, TRUE, FALSE, FALSE, FALSE, FALSE>>
         /\ successCount = 3 /\ failureCount = 4
         /\ state = "OPEN" /\ now >= requestHistory[7].timestamp + RecoveryTimeout
         /\ calls[1].pc = "idle" /\ calls'[1].pc # "idle")
        => (state' = "HALF_OPEN" /\ calls'[1].pc = "running" /\ calls'[1].invoked)
     /\ (/\ Flags(requestHistory) = <<TRUE, TRUE, TRUE, FALSE, FALSE, FALSE, FALSE>>
         /\ successCount = 3 /\ failureCount = 4
         /\ state = "HALF_OPEN"
         /\ calls[1].pc = "running" /\ calls'[1].result = "value")
        => state' = "CLOSED"]_vars

\* C7's case: the whole scenario has run: 3 successes, 4 failures, and after
\* recoveryTimeout a call that succeeded and closed the circuit
C7_Witness ==
  /\ Flags(requestHistory) = <<TRUE, TRUE, TRUE, FALSE, FALSE, FALSE, FALSE, TRUE>>
  /\ successCount = 4
  /\ requestHistory[8].timestamp >= requestHistory[7].timestamp + RecoveryTimeout
  /\ state = "CLOSED"
  /\ calls[1].pc = "done" /\ calls[1].result = "value"

\* C8: an execute call made while the breaker is OPEN and now < nextAttemptTime
\* does not invoke the operation, records no sample and leaves the breaker as it
\* was; it returns the fallback's result if a fallback was passed and fails with
\* the circuit-open error otherwise.
C8_OpenFailsFast ==
  [][\A c \in Calls :
       (calls[c].pc = "idle" /\ calls'[c].pc # "idle" /\ state = "OPEN" /\ now < nextAttemptTime)
       => /\ calls'[c].pc = "done" /\ ~calls'[c].invoked
          /\ requestHistory' = requestHistory
          /\ cbVars' = cbVars
          /\ calls'[c].result = IF calls'[c].fallback THEN "fallback" ELSE "circuit_open"]_vars

\* C8's case: a call was refused by the OPEN breaker while another call, admitted
\* earlier, is still in flight
C8_Witness ==
  \E c, d \in Calls :
    /\ calls[c].pc = "done" /\ ~calls[c].invoked /\ calls[c].result = "circuit_open"
    /\ calls[d].pc = "running"
    /\ state = "OPEN" /\ now < nextAttemptTime

\* C9 (as claimed): when a call admitted while the breaker is HALF_OPEN succeeds,
\* the breaker becomes CLOSED; when it fails, the breaker becomes OPEN with
\* nextAttemptTime = the time of the failure + recoveryTimeout.
C9_HalfOpenCallDecides ==
  [][\A c \in Calls :
       (calls[c].pc = "running" /\ calls[c].admitted = "HALF_OPEN" /\ calls'[c].pc = "done")
       => IF calls'[c].result = "value"
          THEN state' = "CLOSED"
          ELSE state' = "OPEN" /\ nextAttemptTime' = now + RecoveryTimeout]_vars

\* C10 (as claimed): after any call's outcome has been recorded on a breaker that
\* was CLOSED, the breaker is OPEN exactly when the samples in the monitoring
\* window number at least minimumRequestThreshold and failures / total >
\* expectedFailureRate; otherwise it is still CLOSED.
C10_OpenExactlyOverRate ==
  [][\A c \in Calls :
       (calls[c].pc = "running" /\ calls'[c].pc = "done" /\ state = "CLOSED")
       => IF /\ Len(requestHistory') >= MinimumRequestThreshold
             /\ Failures(requestHistory') * RateDen > RateNum * Len(requestHistory')
          THEN state' = "OPEN"
          ELSE state' = "CLOSED"]_vars

\* the pcs of a startContainer or stopContainer call that has read the record
\* (its findUnique has returned) and has not completed
InTransition(t) ==
  tasks[t].pc \in {"start_mark", "start_port", "start_inspect", "start_create", "start_run",
                   "start_persist", "start_audit", "start_err", "start_err_audit",
                   "stop_mark", "stop_docker_stop", "stop_docker_remove", "stop_persist",
                   "stop_audit", "stop_persist_err", "stop_err_audit"}

\* C15 (as claimed): for each container id at most one start/stop transition is
\* in flight: while a startContainer or stopContainer call on an id has read the
\* record and not completed, no other start/stop call on that id has read it.
C15_OneTransitionPerId ==
  \A t, u \in Tasks :
    (t # u /\ InTransition(t) /\ InTransition(u)) => tasks[t].id # tasks[u].id

\* C16 (as claimed): getContainer never hands out an entry whose in-container
\* reset, begun by returnContainer, is still in progress.
C16_NotHandedOutDuringReset ==
  [][\A t \in PoolTasks :
       (/\ poolTasks[t].pc # "done" /\ poolTasks'[t].pc = "done"
        /\ poolTasks'[t].op = "get" /\ poolTasks'[t].result # Null)
       => ~\E u \in PoolTasks :
             /\ poolTasks[u].op = "return" /\ poolTasks[u].pc = "reset"
             /\ poolTasks[u].id = poolTasks'[t].result]_vars

C18_NextAttemptFixedWhileOpen ==
  [][state' = "OPEN"
       => IF state = "OPEN"
          THEN nextAttemptTime' = nextAttemptTime
          ELSE nextAttemptTime' = now + RecoveryTimeout]_vars

\* the ids of the rows of a batch
BatchIds(b) == {b[j].id : j \in 1..Len(b)}

\* C11: cleanupIdleContainers selects exactly the records that are RUNNING with
\* lastActivity before the cutoff (now - idleMinutes at the call), changes the
\* status of no record but the selected one it is stopping, and when it returns
\* every selected record whose stopContainer did not throw is STOPPED.
C11_SweepStopsExactlyIdle ==
  [][\A t \in Tasks :
       tasks[t].op = "cleanup" =>
         /\ (tasks[t].pc = "batch_find" /\ tasks'[t].pc \notin {"batch_find", "batch_fail_audit"})
            => BatchIds(tasks'[t].batch) =
                 {i \in Ids : /\ containers[i].status = "RUNNING"
                              /\ containers[i].lastActivity # Null
                              /\ containers[i].lastActivity < tasks[t].cutoff}
         /\ \A i \in Ids :
              containers'[i].status # containers[i].status
              => i = tasks[t].id /\ i \in BatchIds(tasks[t].batch)
         /\ Completes(t)
            => \A i \in BatchIds(tasks'[t].batch) \ tasks'[t].errors :
                 containers'[i].status = "STOPPED"]_vars

\* C11 witness: a sweep has returned having stopped a selected record while a
\* record that was RUNNING and recently active is still RUNNING.
C11_Witness ==
  \E t \in Tasks :
    /\ tasks[t].op = "cleanup" /\ tasks[t].pc = "done" /\ tasks[t].errors = {}
    /\ \E i \in BatchIds(tasks[t].batch) : containers[i].status = "STOPPED"
    /\ \E j \in Ids \ BatchIds(tasks[t].batch) :
         containers[j].status = "RUNNING" /\ containers[j].lastActivity < now

C13_CreateThenGetReturnsRecord ==
  [][\A t \in Tasks :
       (/\ tasks[t].pc = "get_find" /\ tasks'[t].pc = "done" /\ tasks'[t].result = "returned"
        /\ \A u \in Tasks \ {t} : tasks[u].pc \in {"idle", "done"})
       => LET own == {i \in Ids : Exists(i) /\ containers[i].userId = tasks[t].userId}
          IN  own # {}
              => /\ tasks'[t].found \in own
                 /\ \A j \in own : j <= tasks'[t].found
                 /\ containers[tasks'[t].found].status = "STOPPED"
                 /\ containers[tasks'[t].found].port = Null]_vars

\* C14: getAuditLogs and getAllContainers never throw: they return the rows the
\* store holds for the filter, or the empty list.
C14_ReadsNeverThrow ==
  [][\A t \in Tasks :
       (tasks[t].pc = "read_find" /\ tasks'[t].pc = "done")
       => /\ tasks'[t].result = "returned"
          /\ \/ tasks'[t].rows = {}
             \/ /\ tasks[t].op = "logs"
                /\ tasks'[t].rows = {a \in auditLog : tasks[t].where.userId # ""
                                                       => a.userId = tasks[t].where.userId}
             \/ /\ tasks[t].op = "all"
                /\ tasks'[t].rows = {i \in Ids : /\ Exists(i)
                                                 /\ tasks[t].where.userId # ""
                                                    => containers[i].userId = tasks[t].where.userId}]_vars

\* C14 witness: getAuditLogs has returned the empty list although the store
\* holds audit rows (its query failed), and getAllContainers likewise.
C14_Witness ==
  /\ auditLog # {}
  /\ \E t, u \in Tasks :
       /\ tasks[t].op = "logs" /\ tasks[t].pc = "done" /\ tasks[t].where.userId = ""
       /\ tasks[t].result = "returned" /\ tasks[t].rows = {}
       /\ tasks[u].op = "all" /\ tasks[u].pc = "done" /\ tasks[u].where.userId = ""
       /\ tasks[u].result = "returned" /\ tasks[u].rows = {}

\* C19 (as claimed): when deleteContainer(id, adminId, reason) returns, the
\* record is gone, its runtime container is not running, and the audit log holds
\* a DELETE row for that id whose adminUserId is adminId.
C19_DeleteIsAudited ==
  [][\A t \in Tasks :
       (tasks[t].op = "delete" /\ Completes(t) /\ tasks'[t].result = "returned")
       => /\ containers'[tasks[t].id] = NoRecord
          /\ \E a \in auditLog' :
               /\ a.action = "DELETE"
               /\ a.containerId = tasks[t].id
               /\ a.adminUserId = tasks[t].admin]_vars

\* C20 (as claimed): every audit row forceCleanupContainers adds for a matched
\* record, whether its stop succeeded (FORCE_CLEANUP) or failed (ERROR), has
\* adminUserId = adminId and carries the supplied reason.
C20_ForceCleanupAuditsReason ==
  [][\A t \in Tasks :
       (tasks[t].op = "force" /\ tasks[t].pc \in {"batch_audit", "batch_err_audit"})
       => \A a \in auditLog' \ auditLog :
            /\ a.containerId = tasks[t].id
            /\ a.adminUserId = tasks[t].admin
            /\ a.details = tasks[t].reason]_vars

C22_HandleIffActive ==
  \A i \in Ids :
    Exists(i) => (containers[i].dockerId # Null
                    <=> containers[i].status \in {"STARTING", "RUNNING", "STOPPING"})

\* C23 (as claimed): a stopContainer call on a record that is STOPPED is a
\* no-op: no step of the call takes the record out of STOPPED or adds an audit
\* row.
C23_StopOfStoppedIsNoOp ==
  [][\A t \in Tasks :
       (/\ tasks[t].op = "stop" /\ tasks[t].pc # "done" /\ tasks'[t] # tasks[t]
        /\ containers[tasks[t].id].status = "STOPPED")
       => /\ containers'[tasks[t].id].status = "STOPPED"
          /\ auditLog' = auditLog]_vars

\* C24 (as claimed): a record in ERROR leaves ERROR only by a step of a
\* startContainer call on it or by being deleted; no step of stopContainer, of
\* the idle sweep or of forceCleanupContainers changes its status.
C24_ErrorLeftOnlyByStart ==
  [][\A i \in Ids :
       (/\ containers[i].status = "ERROR" /\ containers'[i].status # "ERROR"
        /\ containers'[i] # NoRecord)
       => \E t \in Tasks : tasks[t].op = "start" /\ tasks[t].id = i /\ tasks'[t] # tasks[t]]_vars

\* C25 (as claimed): a record becomes STARTING only from STOPPED or ERROR.
C25_StartingOnlyFromStoppedOrError ==
  [][\A i \in Ids :
       (containers'[i].status = "STARTING" /\ containers[i].status # "STARTING")
       => containers[i].status \in {"STOPPED", "ERROR"}]_vars

\* C26 (as claimed): the audit log is append-only: no step of any operation
\* removes or changes an audit row, so the set of rows only grows.
C26_AuditLogAppendOnly ==
  [][auditLog \subseteq auditLog']_vars

C28_ShutdownRemovesEveryEntry ==
  [][\A t \in PoolTasks :
       (poolTasks'[t].op = "shutdown" /\ poolTasks[t].pc # "done" /\ poolTasks'[t].pc = "done")
       => /\ ~cleanupInterval'
          /\ \A e \in EntryIds : BucketsOfIn(pool', arrays', e) = {}
          /\ poolTasks'[t].began \subseteq poolTasks'[t].applied]_vars

\* since when an entry has been idle: its last use, or its creation
IdleSince(e) == IF entry[e].lastUsed # Null THEN entry[e].lastUsed ELSE entry[e].createdAt

\* C29 (as claimed): an entry that stays unreserved for longer than maxIdleTime
\* is eventually evicted by the timer, pre-warmed entries that were never handed
\* out included: no entry remains for ever tracked, unreserved and idle beyond
\* the threshold.
C29_IdleEntryEventuallyEvicted ==
  \A e \in EntryIds :
    []<>~(Tracked(e) /\ ~entry[e].reserved /\ IdleSince(e) < now - MaxIdleTime)

\* C30 (as claimed): for every image the array the pool holds never has more
\* than maxContainersPerImage entries, under pre-warming and any interleaving
\* of getContainer calls.
C30_PerImageCap ==
  \A i \in Images : pool[i] # Null => Len(arrays[pool[i]]) <= MaxContainersPerImage

\* C31: in every reachable state, every record with status RUNNING has a
\* non-null port and a non-null dockerId, under any interleaving of start and
\* stop calls.
C31_RunningHasPortAndHandle ==
  \A i \in Ids :
    (Exists(i) /\ containers[i].status = "RUNNING")
      => containers[i].port # Null /\ containers[i].dockerId # Null

\* C31 witness: the record is RUNNING, written by a start that overlapped a stop
\* which has marked the record STOPPING and has not yet written STOPPED
C31_Witness ==
  /\ containers[1].status = "RUNNING"
  /\ containers[1].port # Null /\ containers[1].dockerId # Null
  /\ \E t \in Tasks :
       /\ tasks[t].op = "stop"
       /\ tasks[t].pc \in {"stop_docker_stop", "stop_docker_remove", "stop_persist", "stop_persist_err"}

\* C32: port allocation returns the smallest port of the range that is not the
\* port of any record with a non-null port, and fails with 'No available ports'
\* exactly when every port of the range is held by some record (a failure of
\* the store's read fails the allocation with the store's error).
C32_SmallestFreePort ==
  [][\A t \in Tasks :
       (tasks[t].pc = "start_port" /\ tasks'[t].pc # "start_port") =>
         LET free == Ports \ UsedPorts
         IN  /\ tasks'[t].pc \in {"start_inspect", "start_create", "start_err"}
             /\ tasks'[t].pc # "start_err" =>
                  /\ tasks'[t].port \in free
                  /\ \A q \in free : tasks'[t].port <= q
             /\ (tasks'[t].pc = "start_err" /\ tasks'[t].dockerError = "No available ports")
                  => free = {}
             /\ free = {} => tasks'[t].pc = "start_err"]_vars

\* C32 witness: with every port of the range held by a record, an allocation has
\* failed with 'No available ports'
C32_Witness ==
  /\ Ports \subseteq UsedPorts
  /\ \E t \in Tasks : tasks[t].pc = "start_err" /\ tasks[t].dockerError = "No available ports"

\* task t's handler invokes the runtime client in this step (docker inspect,
\* create, start, stop or remove returns or throws)
RuntimeCall(t) ==
  /\ tasks[t].pc \in {"start_inspect", "start_create", "start_run", "stop_docker_stop",
                      "stop_docker_remove"}
  /\ tasks'[t].pc # tasks[t].pc

\* C33 (as claimed): the manager's runtime calls go through the runtime's circuit
\* breaker: while that breaker is OPEN and before its nextAttemptTime,
\* startContainer and stopContainer do not invoke the runtime client, and every
\* runtime call the manager makes is recorded as a sample of that breaker.
C33_RuntimeCallsThroughBreaker ==
  [][\A t \in Tasks :
       RuntimeCall(t) =>
         /\ ~(state = "OPEN" /\ now < nextAttemptTime)
         /\ requestHistory' # requestHistory]_vars

\* C34 (as claimed): whenever createContainer, startContainer, stopContainer or
\* deleteContainer has changed a persisted record, an audit event for that change
\* exists in the audit log once the call has completed, in every execution,
\* those where individual store writes fail included.  Here: once a start or stop
\* call has completed on a record that is no longer as createContainer left it,
\* the audit log holds a row for that record.
C34_ChangesAreAudited ==
  \A t \in Tasks :
    (/\ tasks[t].pc = "done" /\ tasks[t].op \in {"start", "stop"}
     /\ tasks[t].id \in Ids /\ Exists(tasks[t].id)
     /\ containers[tasks[t].id] # NewRecord(containers[tasks[t].id].userId, containers[tasks[t].id].name))
      => \E a \in auditLog : a.containerId = tasks[t].id

\* C35 (as claimed): failureThreshold is the number of failures before the
\* circuit opens: a breaker configured with failureThreshold = n is OPEN once n
\* failed calls have been recorded.
C35_OpenAtFailureThreshold ==
  [][(failureCount' = failureCount + 1 /\ failureCount' >= FailureThreshold)
       => state' = "OPEN"]_vars

\* C36 (as claimed): while the breaker is HALF_OPEN at most one operation (the
\* probe) is in flight: an execute call that arrives before the probe has
\* completed does not invoke its operation.
C36_SingleProbeInHalfOpen ==
  [][\A c \in Calls :
       (/\ calls[c].pc = "idle" /\ calls'[c].pc # "idle"
        /\ state = "HALF_OPEN"
        /\ \E d \in Calls : calls[d].pc = "running" /\ calls[d].admitted = "HALF_OPEN")
         => ~calls'[c].invoked]_vars

\* C37 (as claimed): every runtime container the manager has created and not
\* removed is referenced by the dockerId of some persisted record: once no call
\* is in flight, no sequence of failed starts, runtime-failing stops or deletes
\* has left a runtime container that no record points to.
C37_NoOrphanRuntimeContainer ==
  (\A t \in Tasks : tasks[t].pc \in {"idle", "done"})
    => \A h \in Handles :
         docker[h].state # "none" => \E i \in Ids : Exists(i) /\ containers[i].dockerId = h

\* C38 (as claimed): an entry that getContainer has handed out and that has not
\* been returned is never removed from the pool, and its runtime container is
\* never stopped, by the idle-eviction timer or by a removal already in
\* progress, under any interleaving of getContainer with the timer's sweep.
C38_HandedOutEntryNotEvicted ==
  [][\A e \in EntryIds :
       (handed[e] >= 1 /\ handed'[e] >= 1) =>
         /\ Tracked(e) => Tracked(e)'
         /\ poolDocker[e].state = "running" => poolDocker'[e].state = "running"]_vars

\* C39 (as claimed): a runtime failure while the pool creates or starts a
\* container inside getContainer is recorded by the runtime's circuit breaker as
\* a failure sample.
C39_PoolRuntimeFailureRecorded ==
  [][\A t \in PoolTasks :
       (/\ poolTasks[t].pc = "get_create"
        /\ poolTasks'[t].pc = "done" /\ poolTasks'[t].result = Null)
         => Failures(requestHistory') = Failures(requestHistory) + 1]_vars

\* C40 (as claimed): every runtime container the pool has created and not
\* removed is tracked in the pool's bookkeeping: once no call is in flight, no
\* interleaving of getContainer calls, no failed start after a successful create
\* and no removal has left a pool-created runtime container untracked.
C40_PoolContainersTracked ==
  (\A t \in PoolTasks : poolTasks[t].pc \in {"idle", "done"})
    => \A e \in EntryIds : poolDocker[e].state # "none" => Tracked(e)

====
